---------------------------- MODULE Spec2Model ----------------------------
(***************************************************************************)
(* A model of the ant-colony simulation engine (apps/rust-backend).        *)
(*                                                                         *)
(* Fixed-point conventions used throughout:                                *)
(*   - lengths, positions and speeds are integers in tenths of a world     *)
(*     unit (the source uses f32): 5.0 is 50, a speed of 2 is 20;          *)
(*   - angles are integers in units of pi/32 (TAU = 64, PI = 32), so the   *)
(*     source's MAX_TURN_RATE of 0.1 rad is 1 unit (0.098 rad);            *)
(*   - cos and sin are taken at the nearest multiple of pi/4 and are kept  *)
(*     in tenths (10, 7, 0, -7, -10);                                      *)
(*   - pheromone strengths are integers in ten-thousandths (0.8 is 8000,   *)
(*     the decay rate 0.0005 is 5).                                        *)
(***************************************************************************)
EXTENDS Integers, Sequences, FiniteSets, TLC

(***************************************************************************)
(* Bounds of the model.                                                    *)
(***************************************************************************)
NumAnts == 3
MaxTick == 2
NumCallers == 3
MaxRestarts == 1
MaxRunTicks == 3
MaxTrailId == 2
\* the batch size and the sync interval of the engine (100 and 100), scaled down
BATCH_SIZE == 2
NumClients == 2
MaxDrains == 2
MaxRequests == 1
MaxLost == 1
ChannelCapacity == 2
db_sync_interval == 1
MaxHuntTicks == 64

MaxFoodTicks == 1000

NumTrails == 3

(***************************************************************************)
(* Arithmetic helpers.                                                     *)
(***************************************************************************)
Abs(x) == IF x < 0 THEN -x ELSE x

Min(a, b) == IF a <= b THEN a ELSE b

Max(a, b) == IF a >= b THEN a ELSE b

Sign(x) == IF x < 0 THEN -1 ELSE IF x > 0 THEN 1 ELSE 0

\* a * b / 10 on fixed-point values, rounded towards zero like an f32-to-grid cast
Scale10(a, b) == Sign(a * b) * (Abs(a * b) \div 10)

\* squared Euclidean distance: every `distance < r' of the source is compared squared
Dist2(p, q) == (p[1] - q[1]) * (p[1] - q[1]) + (p[2] - q[2]) * (p[2] - q[2])

(***************************************************************************)
(* Angles.                                                                 *)
(***************************************************************************)
TAU == 64
PI == 32
MAX_TURN_RATE == 1

\* new_direction % TAU, plus TAU when negative (ant_behavior.rs 885-888)
NormalizeDirection(a) == a % TAU

Octant(a) == ((NormalizeDirection(a) + 4) \div 8) % 8

CosT(a) == CASE Octant(a) = 0 -> 10
             [] Octant(a) = 1 -> 7
             [] Octant(a) = 2 -> 0
             [] Octant(a) = 3 -> -7
             [] Octant(a) = 4 -> -10
             [] Octant(a) = 5 -> -7
             [] Octant(a) = 6 -> 0
             [] OTHER -> 7

SinT(a) == CosT(a - 16)

\* dy.atan2(dx), rounded to the nearest multiple of pi/4 (tan(pi/8) is taken as 1/2)
Atan2(dy, dx) ==
    IF dx = 0 /\ dy = 0 THEN 0
    ELSE IF 2 * Abs(dy) < Abs(dx) THEN (IF dx > 0 THEN 0 ELSE PI)
    ELSE IF 2 * Abs(dx) < Abs(dy) THEN (IF dy > 0 THEN 16 ELSE 48)
    ELSE IF dx > 0 THEN (IF dy > 0 THEN 8 ELSE 56)
    ELSE (IF dy > 0 THEN 24 ELSE 40)

(***************************************************************************)
(* AntBehaviorManager::move_with_bounds: advance by distance along         *)
(* direction, reflect once off each pair of edges, normalise the heading.  *)
(***************************************************************************)
ReflectLow(v) == -v

ReflectHigh(v, limit) == limit - (v - limit)

MoveWithBounds(position, direction, distance, world) ==
    LET rawX == position[1] + Scale10(CosT(direction), distance)
        rawY == position[2] + Scale10(SinT(direction), distance)
        hitX == rawX < 0 \/ rawX > world.width
        hitY == rawY < 0 \/ rawY > world.height
        newX == IF rawX < 0 THEN ReflectLow(rawX)
                ELSE IF rawX > world.width THEN ReflectHigh(rawX, world.width)
                ELSE rawX
        newY == IF rawY < 0 THEN ReflectLow(rawY)
                ELSE IF rawY > world.height THEN ReflectHigh(rawY, world.height)
                ELSE rawY
        dir1 == IF hitX THEN PI - direction ELSE direction
        dir2 == IF hitY THEN -dir1 ELSE dir1
    IN  [pos |-> <<newX, newY>>, angle |-> NormalizeDirection(dir2)]

InBounds(position, world) ==
    /\ 0 <= position[1] /\ position[1] <= world.width
    /\ 0 <= position[2] /\ position[2] <= world.height

(***************************************************************************)
(* Finite maps (HashMap / DashMap contents).                               *)
(***************************************************************************)
EmptyMap == [k \in {} |-> 0]

MapPut(m, k, v) == [x \in (DOMAIN m) \cup {k} |-> IF x = k THEN v ELSE m[x]]

MapRemove(m, ks) == [x \in (DOMAIN m) \ ks |-> m[x]]

MapGetOr(m, k, d) == IF k \in DOMAIN m THEN m[k] ELSE d

RECURSIVE SumOver(_, _)
SumOver(m, ks) ==
    IF ks = {} THEN 0
    ELSE LET k == CHOOSE x \in ks : TRUE
         IN  m[k] + SumOver(m, ks \ {k})

\* carried_resources.values().sum()
MapSum(m) == SumOver(m, DOMAIN m)

\* Option<i32>::None
NoneId == 0

NoTarget == <<"None", NoneId>>

TargetFood(id) == <<"Food", id>>

(***************************************************************************)
(* The world the engine is started on (rows of the database).              *)
(***************************************************************************)
WorldBounds == [width |-> 1000, height |-> 600]

\* ant_types rows: role, base_speed, lifespan_ticks
AntTypeRows ==
    [t \in {1, 2, 3} |->
        CASE t = 1 -> [role |-> "worker", base_speed |-> 2, lifespan_ticks |-> 50000]
          [] t = 2 -> [role |-> "scout", base_speed |-> 2, lifespan_ticks |-> 50000]
          [] OTHER -> [role |-> "soldier", base_speed |-> 2, lifespan_ticks |-> 2]]

\* colonies rows: one colony centred at (x, 30) with room for `room' more ants
ColonyRows(x, room) ==
    [c \in {1} |-> [center_x |-> x, center_y |-> 30, radius |-> 10, population |-> NumAnts,
                    max_population |-> NumAnts + room,
                    upgrade_cost |-> [k \in {"food"} |-> 10],
                    resources |-> [k \in {"food"} |-> 100]]]

\* the colony of most worlds, full
HomeColony == ColonyRows(20, 0)

\* a colony whose centre is less than its radius from the east edge of the
\* world, with room for one more ant
EdgeColony == ColonyRows(95, 1)

AntRow(type, x, y, angle, energy, age, state, ttype, tid, carried) ==
    [colony_id |-> 1, ant_type_id |-> type, position_x |-> x, position_y |-> y,
     angle |-> angle, current_speed |-> 2, health |-> 100, energy |-> energy,
     age_ticks |-> age, state |-> state, target_type |-> ttype, target_id |-> tid,
     carried_resources |-> carried, last_updated |-> 0]

Carried(n) == [k \in {"food"} |-> n]

\* the colony lies at (20, 30) with radius 10, the food source at its edge
NearFood == AntRow(1, 26, 30, 0, 100, 0, "seeking_food", "food_source", 1, EmptyMap)

AwayFromFood == AntRow(1, 24, 30, 0, 100, 0, "seeking_food", "food_source", 1, EmptyMap)

InColony(carried) == AntRow(1, 26, 30, 3, 100, 0, "carrying_food", "food_source", 1, carried)

OnTheWayHome == AntRow(1, 34, 30, 3, 100, 0, "carrying_food", "food_source", 1, Carried(5))

\* a worker one unit from the east edge, heading east
EastWorker == AntRow(1, 99, 30, 0, 100, 0, "wandering", "none", NoneId, EmptyMap)

FarWorker(energy) == AntRow(1, 95, 30, 3, energy, 0, "wandering", "none", NoneId, EmptyMap)

ScoutAt(x) == AntRow(2, x, 30, 0, 100, 0, "wandering", "none", NoneId, EmptyMap)

Soldier(age) == AntRow(3, 95, 10, 0, 100, age, "wandering", "none", NoneId, EmptyMap)

\* an ant whose ant_type_id no row of ant_types has
Untyped == AntRow(9, 50, 30, 0, 100, 0, "wandering", "none", NoneId, EmptyMap)

FoodRow(amount, rate, spoilage) ==
    [position_x |-> 30, position_y |-> 30, amount |-> amount, max_amount |-> 10,
     regeneration_rate |-> rate, is_renewable |-> (rate > 0), spoilage_rate |-> spoilage]

\* the worlds the engine is started on: the rows of the first three ants,
\* of the food source and of the colony; further ants are workers far from
\* everything.
\* In every world the rows satisfy the invariants of the data model: the
\* ants are inside the world, an ant carries a load exactly when its state
\* is carrying_food, and the food amount is within 0 .. max_amount.
Worlds ==
    { <<NearFood, InColony(Carried(5)), NearFood, FoodRow(8, 0, 2), HomeColony>>,
      <<ScoutAt(35), NearFood, NearFood, FoodRow(3, 0, 0), HomeColony>>,
      <<AwayFromFood, FarWorker(100), Soldier(0), FoodRow(9, 2, 0), HomeColony>>,
      <<InColony([k \in {"food", "seeds"} |-> 2]), FarWorker(1), Untyped, FoodRow(8, 0, 1),
        HomeColony>>,
      <<OnTheWayHome, ScoutAt(95), Soldier(2), FoodRow(8, 2, 0), HomeColony>>,
      <<EastWorker, Untyped, Untyped, FoodRow(8, 0, 0), EdgeColony>> }

\* a row load_ants does not select
Gone == AntRow(1, 50, 30, 0, 0, 0, "dead", "none", NoneId, EmptyMap)

\* a worker three units from the east edge, heading east
WallWorker == AntRow(1, 97, 30, 0, 100, 0, "wandering", "none", NoneId, EmptyMap)

\* a worker that sees the food source from ten units away
Forager == AntRow(1, 40, 30, 32, 100, 0, "wandering", "none", NoneId, EmptyMap)

\* a colony of `population' ants with room for `room' more
SmallColony(population, room) ==
    [c \in {1} |-> [ColonyRows(20, 0)[c] EXCEPT !.population = population,
                                               !.max_population = population + room]]

\* the worlds the engine serves websocket clients on: a worker that meets
\* the wall while the food spoils away, a worker on its way to the food,
\* and a world without ants
NetWorlds ==
    { <<WallWorker, Gone, Gone, FoodRow(2, 0, 1), SmallColony(1, 0)>>,
      <<Forager, Gone, Gone, FoodRow(8, 0, 1), SmallColony(1, 0)>>,
      <<Gone, Gone, Gone, FoodRow(8, 0, 1), SmallColony(0, 0)>> }

WorldRows(w) ==
    [ants |-> [i \in 1 .. NumAnts |-> IF i <= 3 THEN w[i] ELSE FarWorker(100)],
     colonies |-> w[5],
     food_sources |-> [f \in {1} |-> w[4]],
     current_tick |-> 0,
     ant_batches |-> 0]      \* history: the batch updates of ants that succeeded

(***************************************************************************)
(* State.                                                                  *)
(***************************************************************************)
VARIABLES
    ants,               \* cache.ants: id -> FastAnt
    colonies,           \* cache.colonies: id -> FastColony
    food_sources,       \* cache.food_sources: id -> FastFoodSource
    pheromone_trails,   \* cache.pheromone_trails: id -> FastPheromoneTrail
    current_tick,       \* AntColonySimulator.current_tick and cache.current_tick
    dirty_ants,         \* cache.dirty_ants (the keys)
    dirty_colonies,     \* cache.dirty_colonies
    dirty_food_sources, \* cache.dirty_food_sources
    db,                 \* the rows of the database
    pc,                 \* where the simulation loop stands within the tick
    living_ants,        \* process_tick's snapshot of the ants that are not Dead
    batches,            \* per parallel batch: position in its chunk and in the ant's step
    stepped,            \* history: per ant, behaviour steps begun in the current tick
    phase_log,          \* history: phases begun and finished in the current tick
    last_collect,       \* history: amounts around the last completed Collect
    last_deposit,       \* history: amounts around the last completed Deposit
    restarts,           \* history: number of restarts of the engine
    elapsed,            \* history: number of ticks begun since the first start
    guards,             \* per map of the cache: the lock of the entry under test
    calls,              \* per caller of the cache: the call it is in
    failed_syncs,       \* history: the ticks, counted as elapsed, whose sync failed
    drains,             \* the sync beside the parallel callers: the dirty ids it has read
    run,                \* is_running, and as history the tick and the place of stop()
    previous,           \* previous_ants, previous_colonies, previous_food_sources
    channel,            \* WebSocketManager.tx: the messages sent, in order
    subscribers,        \* per client: its connection and what it has rebuilt
    fullstate_requests, \* the queue behind fullstate_request_tx
    engine_states       \* history: per tick processed, the cache at its end

worldVars == <<ants, colonies, food_sources, pheromone_trails, current_tick,
               dirty_ants, dirty_colonies, dirty_food_sources, db, pc, living_ants,
               batches, stepped, phase_log, last_collect, last_deposit, restarts,
               elapsed>>

cacheVars == <<guards, calls>>

netVars == <<previous, channel, subscribers, fullstate_requests, engine_states>>

(***************************************************************************)
(* AntColonySimulator::load_initial_data and the parse_* helpers.          *)
(***************************************************************************)
\* the i32 columns are world units and whole radians; the cache holds f32
UnitsToLength(n) == n * 10

I32ToAngle(r) == (r * 1019) \div 100

parse_ant_state(str) ==
    CASE str = "wandering" -> "Wandering"
      [] str = "seeking_food" -> "SeekingFood"
      [] str = "carrying_food" -> "CarryingFood"
      [] str = "following" -> "Following"
      [] str = "exploring" -> "Exploring"
      [] str = "patrolling" -> "Patrolling"
      [] str = "dead" -> "Dead"
      [] OTHER -> "Wandering"

parse_ant_target(target_type, target_id) ==
    CASE target_type = "food_source" /\ target_id # NoneId -> <<"Food", target_id>>
      [] target_type = "colony" /\ target_id # NoneId -> <<"Colony", target_id>>
      [] OTHER -> NoTarget

LoadAnt(id, row) ==
    [id |-> id, colony_id |-> row.colony_id, ant_type_id |-> row.ant_type_id,
     position |-> <<UnitsToLength(row.position_x), UnitsToLength(row.position_y)>>,
     angle |-> I32ToAngle(row.angle), speed |-> UnitsToLength(row.current_speed),
     health |-> row.health, energy |-> row.energy, age_ticks |-> row.age_ticks,
     state |-> parse_ant_state(row.state),
     target |-> parse_ant_target(row.target_type, row.target_id),
     carried_resources |-> row.carried_resources,
     last_action_tick |-> 0, last_food_source_id |-> NoneId]

\* DatabaseManager::load_ants selects the rows whose state is not 'dead'
LoadAnts(rows) ==
    [id \in {i \in DOMAIN rows : rows[i].state # "dead"} |-> LoadAnt(id, rows[id])]

LoadColony(id, row) ==
    [id |-> id, center |-> <<UnitsToLength(row.center_x), UnitsToLength(row.center_y)>>,
     radius |-> UnitsToLength(row.radius), population |-> row.population,
     max_population |-> row.max_population, upgrade_cost |-> row.upgrade_cost,
     resources |-> row.resources]

LoadColonies(rows) == [id \in DOMAIN rows |-> LoadColony(id, rows[id])]

LoadFood(id, row) ==
    [id |-> id, position |-> <<UnitsToLength(row.position_x), UnitsToLength(row.position_y)>>,
     amount |-> row.amount, max_amount |-> row.max_amount,
     regeneration_rate |-> row.regeneration_rate, is_renewable |-> row.is_renewable,
     spoilage_rate |-> row.spoilage_rate]

\* DatabaseManager::load_food_sources selects the rows with amount > 0
LoadFoodSources(rows) ==
    [id \in {i \in DOMAIN rows : rows[i].amount > 0} |-> LoadFood(id, rows[id])]

NoCollect == [ant |-> NoneId, food_before |-> 0, food_after |-> 0,
              carried_before |-> 0, carried_after |-> 0]

NoDeposit == [ant |-> NoneId, colony_before |-> 0, colony_after |-> 0,
              carried_before |-> 0, carried_left |-> EmptyMap]

\* the store filled from the rows, holding the given trails
Loaded(rows, trails) ==
    /\ ants = LoadAnts(rows.ants)
    /\ colonies = LoadColonies(rows.colonies)
    /\ food_sources = LoadFoodSources(rows.food_sources)
    /\ pheromone_trails = trails
    /\ current_tick = 0
    /\ dirty_ants = DOMAIN LoadAnts(rows.ants)
    /\ dirty_colonies = DOMAIN rows.colonies
    /\ dirty_food_sources = DOMAIN LoadFoodSources(rows.food_sources)
    /\ pc = "idle"
    /\ living_ants = <<>>
    /\ batches = <<>>
    /\ stepped = [a \in DOMAIN LoadAnts(rows.ants) |-> 0]
    /\ phase_log = <<>>
    /\ last_collect = NoCollect
    /\ last_deposit = NoDeposit

\* AntColonySimulator::new: an empty cache at tick 0, filled by load_initial_data
Construct(rows) == Loaded(rows, EmptyMap)

InitialRows == {WorldRows(w) : w \in Worlds}

\* the callers of the cache that run in parallel
Callers == 1 .. NumCallers

\* the maps of the cache that have an update function
Kinds == {"ant", "colony", "food"}

NoCall == [kind |-> "none", op |-> "none", arg |-> 0]

\* no entry is locked, no caller is in a call
CacheIdle ==
    /\ guards = [kind \in Kinds |-> [writer |-> 0, readers |-> {}, log |-> <<>>]]
    /\ calls = [c \in Callers |-> [call |-> NoCall, pc |-> "start", local |-> 0,
                                    seen |-> <<>>]]

\* the sync has read no dirty id yet; returned and logged are kept after
\* the sync as history, with the number of reads
DrainIdle ==
    drains = [stage |-> "idle", returned |-> [kind \in Kinds |-> {}],
              logged |-> [kind \in Kinds |-> 0], count |-> 0]

\* start has set is_running and stop() has not been called
Running == run = [is_running |-> TRUE, at |-> 0, where |-> "none"]

\* the websocket clients
Clients == 1 .. NumClients

\* previous_ants, previous_colonies, previous_food_sources are Vec::new()
NoSnapshot == [ants |-> EmptyMap, colonies |-> EmptyMap, food_sources |-> EmptyMap]

\* what a client holds before its first message
NoState == [tick |-> -1, ants |-> EmptyMap, colonies |-> EmptyMap,
            food_sources |-> EmptyMap, pheromone_trails |-> EmptyMap]

\* a client that has not connected; next is the place in channel of the
\* message its receiver yields next, the other fields after state are history
Absent == [status |-> "absent", next |-> 0, state |-> NoState, asked |-> 0,
           sent |-> 0, lost |-> 0, open |-> FALSE]

\* the entity maps of the cache as one record
World == [ants |-> ants, colonies |-> colonies, food_sources |-> food_sources,
          pheromone_trails |-> pheromone_trails]

\* WebSocketManager::new and the fields AntColonySimulator::new sets
NetIdle ==
    /\ previous = NoSnapshot
    /\ channel = <<>>
    /\ subscribers = [c \in Clients |-> Absent]
    /\ fullstate_requests = <<>>
    /\ engine_states = <<>>

Init ==
    /\ db \in InitialRows
    /\ Construct(db)
    /\ restarts = 0
    /\ elapsed = 0
    /\ CacheIdle
    /\ failed_syncs = {}
    /\ DrainIdle
    /\ Running
    /\ NetIdle

(***************************************************************************)
(* The simulation loop: AntColonySimulator::start and process_tick.        *)
(***************************************************************************)
Log(event) == phase_log' = Append(phase_log, event)

NextTickSkips(tick) == tick + 2

\* current_tick += 1
NextTick(tick) == tick + 1

\* ticker.tick() fired: current_tick += 1; cache.set_current_tick; the
\* run is followed for `limit' ticks
BeginTick(limit) ==
    /\ pc = "idle"
    /\ elapsed < limit
    /\ elapsed' = elapsed + 1
    /\ current_tick' = NextTick(current_tick)
    /\ pc' = "environment"
    /\ phase_log' = <<>>
    /\ stepped' = [a \in DOMAIN ants |-> 0]
    /\ UNCHANGED <<ants, colonies, food_sources, pheromone_trails, dirty_ants,
                   dirty_colonies, dirty_food_sources, db, living_ants, batches,
                   last_collect, last_deposit, restarts, guards, calls,
                   failed_syncs, drains, run, netVars>>

TickBegin == BeginTick(MaxTick)

\* food_regeneration_system on one food source
Regenerate(food) ==
    IF food.is_renewable /\ food.amount < food.max_amount
    THEN [food EXCEPT !.amount = Min(food.amount + food.regeneration_rate, food.max_amount)]
    ELSE food

\* food_spoilage_system on one food source (the despawn is in EnvironmentPhase)
Spoil(food) == [food EXCEPT !.amount = Max(food.amount - food.spoilage_rate, 0)]

\* let max_food_sources = 75
max_food_sources == 75

\* the regular cadence and the cadence of the bonus event of food_spawning_system
food_spawn_interval == 1000

bonus_food_interval == 100

\* the places spawn_random_food_source_away_from_colonies may find, in
\* units, and the outcome of ten candidates too close to a colony
SpawnSpots == {<<50, 10>>, <<50, 50>>}

NoSpot == <<0, 0>>

\* the source spawned at a spot: full and renewable; its spoilage_rate of
\* 0.01 is below one unit of amount
SpawnedFood(id, spot) ==
    LoadFood(id, [position_x |-> spot[1], position_y |-> spot[2], amount |-> 10,
                  max_amount |-> 10, regeneration_rate |-> 1, is_renewable |-> TRUE,
                  spoilage_rate |-> 0])

\* food_spawning_system: the number of spawn commands it issues; both
\* branches count the sources of the query, which does not hold the source
\* a command of this run will add
SpawnCommands(tick, count, chance) ==
    (IF tick % food_spawn_interval = 0 /\ count < max_food_sources THEN 1 ELSE 0)
    + (IF tick % bonus_food_interval = 0 /\ chance /\ count < max_food_sources THEN 1 ELSE 0)

LastId(m) == IF DOMAIN m = {} THEN 0 ELSE CHOOSE x \in DOMAIN m : \A y \in DOMAIN m : y <= x

\* 1. Environment updates: regeneration, then spoilage with the removal of
\* the sources left with amount <= 0, and the spawning of new sources; the
\* despawns and spawns are commands applied when the systems have run
EnvironmentPhase ==
    /\ pc = "environment"
    /\ \E chance \in BOOLEAN, spots \in [1 .. 2 -> SpawnSpots \cup {NoSpot}] :
        LET spoiled == [f \in DOMAIN food_sources |-> Spoil(Regenerate(food_sources[f]))]
            gone == {f \in DOMAIN spoiled : spoiled[f].amount <= 0}
            kept == MapRemove(spoiled, gone)
            n == SpawnCommands(current_tick, Cardinality(DOMAIN food_sources), chance)
            last == LastId(food_sources)
            spawned == {last + j : j \in {i \in 1 .. n : spots[i] # NoSpot}}
        IN  food_sources' = IF n = 0 THEN kept
                            ELSE [id \in DOMAIN kept \cup spawned |->
                                     IF id \in DOMAIN kept THEN kept[id]
                                     ELSE SpawnedFood(id, spots[id - last])]
    /\ pc' = "pheromone"
    /\ Log("environment")
    /\ UNCHANGED <<ants, colonies, pheromone_trails, current_tick, dirty_ants,
                   dirty_colonies, dirty_food_sources, db, living_ants, batches,
                   stepped, last_collect, last_deposit, restarts, elapsed, guards, calls,
                   failed_syncs, drains, run, netVars>>

\* pheromone_decay_system on one trail
Decay(trail) == [trail EXCEPT !.strength = Max(trail.strength - trail.decay_rate, 0)]

\* the removal test of pheromone_decay_system
Expired(trail, tick) == trail.strength <= 0 \/ tick > trail.expires_at

DecayTrails(trails, tick) ==
    LET decayed == [t \in DOMAIN trails |-> Decay(trails[t])]
    IN  MapRemove(decayed, {t \in DOMAIN decayed : Expired(decayed[t], tick)})

\* distance < 5.0 && props1.trail_type == props2.trail_type
ShouldMerge(t1, t2) ==
    /\ Dist2(t1.position, t2.position) < 50 * 50
    /\ t1.trail_type = t2.trail_type

\* the later trail of the pair, whatever the strengths
LaterOfPair(t1, t2) == t2.id

\* the trail of a merging pair that is removed, t1 the earlier of the
\* two: the weaker one, the later one when the strengths are equal
Removed(t1, t2) == IF t1.strength >= t2.strength THEN t2.id ELSE t1.id

\* the orders in which the query may give the trails
QueryOrders(trails) ==
    {o \in [1 .. Cardinality(DOMAIN trails) -> DOMAIN trails] :
        \A i, j \in DOMAIN o : i # j => o[i] # o[j]}

\* merged_entities of pheromone_merging_system for the trails in this order
merged_entities(trails, order) ==
    {Removed(trails[order[p[1]]], trails[order[p[2]]]) :
        p \in {q \in (DOMAIN order) \X (DOMAIN order) :
                  /\ q[1] < q[2]
                  /\ ShouldMerge(trails[order[q[1]]], trails[order[q[2]]])}}

\* pheromone_merging_system: every pair of the snapshot is visited and the
\* merged entities are despawned when the pass is over
pheromone_merging_system ==
    /\ \E order \in QueryOrders(pheromone_trails) :
        pheromone_trails' = MapRemove(pheromone_trails,
                                      merged_entities(pheromone_trails, order))
    /\ UNCHANGED <<ants, colonies, food_sources, current_tick, dirty_ants,
                   dirty_colonies, dirty_food_sources, db, pc, living_ants, batches,
                   stepped, phase_log, last_collect, last_deposit, restarts, elapsed,
                   guards, calls, failed_syncs, drains, run, netVars>>

\* 2. Pheromone trail decay
PheromonePhase ==
    /\ pc = "pheromone"
    /\ pheromone_trails' = DecayTrails(pheromone_trails, current_tick)
    /\ pc' = "agents"
    /\ Log("pheromone")
    /\ UNCHANGED <<ants, colonies, food_sources, current_tick, dirty_ants,
                   dirty_colonies, dirty_food_sources, db, living_ants, batches,
                   stepped, last_collect, last_deposit, restarts, elapsed, guards, calls,
                   failed_syncs, drains, run, netVars>>

(***************************************************************************)
(* Pheromone sensing: get_pheromone_influence and                          *)
(* get_home_pheromone_influence.                                           *)
(***************************************************************************)
\* floor of the square root, for distances up to the largest sensing radius
ISqrt(n) == CHOOSE r \in 0 .. 500 : r * r <= n /\ n < (r + 1) * (r + 1)

\* exp(-3 * distance / radius) in thousandths, tabulated on tenths of the radius
DistanceDecay(distance, radius) ==
    LET i == (10 * distance) \div radius
    IN  CASE i = 0 -> 1000 [] i = 1 -> 741 [] i = 2 -> 549 [] i = 3 -> 407
          [] i = 4 -> 301 [] i = 5 -> 223 [] i = 6 -> 165 [] i = 7 -> 122
          [] i = 8 -> 91 [] i = 9 -> 67 [] OTHER -> 50

\* the trails get_pheromone_trails_near_position returns that pass the
\* colony, type and `distance > 0.0 && distance <= radius' tests
SensedTrails(position, colony_id, radius, type) ==
    {t \in DOMAIN pheromone_trails :
        /\ pheromone_trails[t].colony_id = colony_id
        /\ pheromone_trails[t].trail_type = type
        /\ Dist2(pheromone_trails[t].position, position) > 0
        /\ Dist2(pheromone_trails[t].position, position) <= radius * radius}

\* influence of one trail: [x, y, strength]
TrailInfluence(t, position, radius, own) ==
    LET trail == pheromone_trails[t]
        dx == trail.position[1] - position[1]
        dy == trail.position[2] - position[2]
        distance == ISqrt(dx * dx + dy * dy)
        influence == (trail.strength * DistanceDecay(distance, radius) * own) \div 1000
    IN  [x |-> Sign(dx) * ((Abs(dx) * influence) \div Max(distance, 1)),
         y |-> Sign(dy) * ((Abs(dy) * influence) \div Max(distance, 1)),
         strength |-> influence]

RECURSIVE SumInfluence(_, _, _, _, _)
SumInfluence(ts, position, radius, ant_id, weighted) ==
    IF ts = {} THEN [x |-> 0, y |-> 0, strength |-> 0]
    ELSE LET t == CHOOSE x \in ts : TRUE
             own == IF weighted /\ pheromone_trails[t].ant_id = ant_id THEN 2 ELSE 1
             one == TrailInfluence(t, position, radius, own)
             rest == SumInfluence(ts \ {t}, position, radius, ant_id, weighted)
         IN  [x |-> one.x + rest.x, y |-> one.y + rest.y,
              strength |-> one.strength + rest.strength]

get_pheromone_influence(position, colony_id, radius, ant_id) ==
    LET food == SensedTrails(position, colony_id, radius, "Food")
        first == SumInfluence(food, position, radius, ant_id, TRUE)
        strong == {t \in food : pheromone_trails[t].strength > 1000}
        second == SumInfluence(strong, position, radius, ant_id, FALSE)
        total == [x |-> first.x + second.x, y |-> first.y + second.y,
                  strength |-> first.strength + second.strength]
    IN  IF first.strength > 2000
        THEN [direction |-> Atan2(first.y, first.x), strength |-> first.strength]
        ELSE IF total.strength = 0 THEN [direction |-> 0, strength |-> 0]
        ELSE [direction |-> Atan2(total.y, total.x), strength |-> total.strength]

get_home_pheromone_influence(position, colony_id, radius, ant_id) ==
    LET home == SensedTrails(position, colony_id, radius, "Home")
        total == SumInfluence(home, position, radius, ant_id, TRUE)
    IN  IF total.strength = 0 THEN [direction |-> 0, strength |-> 0]
        ELSE [direction |-> Atan2(total.y, total.x), strength |-> total.strength]

\* blended_y.atan2(blended_x) of the target angle and the trail direction,
\* the weight in ten-thousandths
Blend(angle, trail_dir, weight) ==
    Atan2(SinT(angle) * (10000 - weight) + SinT(trail_dir) * weight,
          CosT(angle) * (10000 - weight) + CosT(trail_dir) * weight)

(***************************************************************************)
(* AntBehaviorManager::determine_ant_action.                               *)
(***************************************************************************)
AntTypeOf(ant) ==
    IF ant.ant_type_id \in DOMAIN AntTypeRows THEN AntTypeRows[ant.ant_type_id]
    ELSE [role |-> "missing", base_speed |-> 0, lifespan_ticks |-> 0]

HasAntType(ant) == ant.ant_type_id \in DOMAIN AntTypeRows

\* get_food_sources_near_position(position, radius) filtered by amount > 0
FoodNear(position, radius) ==
    {f \in DOMAIN food_sources :
        /\ Dist2(food_sources[f].position, position) <= radius * radius
        /\ food_sources[f].amount > 0}

SearchRadius(role) == IF role = "scout" THEN 400 ELSE IF role = "worker" THEN 300 ELSE 250

FollowThreshold(role) == IF role = "scout" THEN 500 ELSE IF role = "worker" THEN 1000 ELSE 1500

DefaultAction(role) ==
    IF role = "scout" THEN <<"Explore">>
    ELSE IF role = "soldier" THEN <<"Patrol">>
    ELSE <<"Wander">>

\* the actions a Wandering ant may be given; the food it sees is the one
\* `find' meets first in the map's iteration order (any of them)
WanderingActions(ant) ==
    LET role == AntTypeOf(ant).role
        near == FoodNear(ant.position, 500)
        seek == IF role = "soldier"
                THEN {f \in near : Dist2(ant.position, food_sources[f].position) < 200 * 200}
                ELSE near
        infl == get_pheromone_influence(ant.position, ant.colony_id, SearchRadius(role), ant.id)
        other == IF infl.strength > FollowThreshold(role)
                 THEN <<"FollowPheromone", infl.direction, infl.strength>>
                 ELSE DefaultAction(role)
    IN  {<<"SeekFood", f>> : f \in seek}
        \cup (IF near = {} \/ (role = "soldier" /\ near # seek) THEN {other} ELSE {})

SeekingActions(ant) ==
    IF ant.target[1] = "Food" /\ ant.target[2] \in DOMAIN food_sources
    THEN IF Dist2(ant.position, food_sources[ant.target[2]].position) < 50 * 50
         THEN {<<"CollectFood", ant.target[2]>>}
         ELSE {<<"MoveToTarget">>}
    ELSE {<<"Wander">>}

\* a choice that lets a carrying ant wander
DetermineWithoutReturn(ant) ==
    CASE ant.state = "Wandering" -> WanderingActions(ant)
      [] ant.state = "SeekingFood" -> SeekingActions(ant)
      [] OTHER -> {<<"Wander">>}

determine_ant_action(ant) ==
    CASE ant.state = "Wandering" -> WanderingActions(ant)
      [] ant.state = "SeekingFood" -> SeekingActions(ant)
      [] ant.state = "CarryingFood" -> {<<"ReturnToColony">>}
      [] OTHER -> {<<"Wander">>}

(***************************************************************************)
(* The agent-behaviour phase: AntBehaviorManager::process_tick.            *)
(* The snapshot is cut into chunks of BATCH_SIZE; the chunks run in        *)
(* parallel, the ants of one chunk one after the other.  A step of the     *)
(* model is one decision or one write to the cache.                        *)
(***************************************************************************)
RECURSIVE SortedSeq(_)
SortedSeq(S) ==
    IF S = {} THEN <<>>
    ELSE LET m == CHOOSE x \in S : \A y \in S : x <= y
         IN  <<m>> \o SortedSeq(S \ {m})

AllAnts(all) == DOMAIN all

\* .filter(|entry| entry.state != AntState::Dead)
LivingAnts(all) == {a \in DOMAIN all : all[a].state # "Dead"}

Snapshot(all) == [i \in 1 .. Cardinality(LivingAnts(all)) |-> all[SortedSeq(LivingAnts(all))[i]]]

NumChunks(n) == (n + BATCH_SIZE - 1) \div BATCH_SIZE

ChunkOverlapping(living, k) ==
    SubSeq(living, Max((k - 1) * BATCH_SIZE, 1), Min(k * BATCH_SIZE, Len(living)))

\* the k-th chunk of par_chunks(BATCH_SIZE)
Chunk(living, k) ==
    SubSeq(living, (k - 1) * BATCH_SIZE + 1, Min(k * BATCH_SIZE, Len(living)))

NoMove == [pos |-> <<0, 0>>, angle |-> 0]

NewBatch(living, k) ==
    [chunk |-> Chunk(living, k), pos |-> 0, stage |-> "next", action |-> <<"None">>,
     food_collected |-> 0, moved |-> NoMove, before |-> 0, after |-> 0]

BatchDone(b) == b.pos = Len(b.chunk) /\ b.stage = "next"

NoJoin(bs) == TRUE

\* for_each returns when every chunk has been worked through
AllBatchesDone(bs) == \A k \in DOMAIN bs : BatchDone(bs[k])

AgentsBegin ==
    /\ pc = "agents"
    /\ living_ants' = Snapshot(ants)
    /\ IF Len(living_ants') = 0
       THEN /\ pc' = "colony"
            /\ batches' = <<>>
            /\ phase_log' = phase_log \o <<"agents_begin", "agents">>
       ELSE /\ pc' = "agents_running"
            /\ batches' = [k \in 1 .. NumChunks(Len(living_ants')) |-> NewBatch(living_ants', k)]
            /\ Log("agents_begin")
    /\ UNCHANGED <<ants, colonies, food_sources, pheromone_trails, current_tick,
                   dirty_ants, dirty_colonies, dirty_food_sources, db, stepped,
                   last_collect, last_deposit, restarts, elapsed, guards, calls,
                   failed_syncs, drains, run, netVars>>

AgentsJoin ==
    /\ pc = "agents_running"
    /\ AllBatchesDone(batches)
    /\ pc' = "colony"
    /\ Log("agents")
    /\ UNCHANGED <<ants, colonies, food_sources, pheromone_trails, current_tick,
                   dirty_ants, dirty_colonies, dirty_food_sources, db, living_ants,
                   batches, stepped, last_collect, last_deposit, restarts, elapsed, guards, calls,
                   failed_syncs, drains, run, netVars>>

\* the snapshot copy of the ant a batch is working on
Cur(k) == batches[k].chunk[batches[k].pos + 1]

Working(k, stage, kind) ==
    /\ pc = "agents_running"
    /\ k \in DOMAIN batches
    /\ batches[k].stage = stage
    /\ batches[k].action[1] = kind

\* the batch has finished the step of its current ant
Finish(k) ==
    batches' = [batches EXCEPT ![k].pos = @ + 1, ![k].stage = "next",
                               ![k].action = <<"None">>, ![k].food_collected = 0,
                               ![k].moved = NoMove, ![k].before = 0, ![k].after = 0]

\* SimulationCache::update_ant: the closure runs under the entry's lock
update_ant(id, new) ==
    IF id \in DOMAIN ants
    THEN /\ ants' = [ants EXCEPT ![id] = new]
         /\ dirty_ants' = dirty_ants \cup {id}
    ELSE UNCHANGED <<ants, dirty_ants>>

\* the closure of kill_ant
kill_ant(a) == [a EXCEPT !.state = "Dead", !.health = 0]

Dies(ant) ==
    \/ HasAntType(ant) /\ ant.age_ticks + 1 > AntTypeOf(ant).lifespan_ticks
    \/ Max(ant.energy - 1, 0) <= 0

\* process_ant_behavior up to the choice of the action
BeginStep(k) ==
    /\ pc = "agents_running"
    /\ k \in DOMAIN batches
    /\ batches[k].stage = "next"
    /\ batches[k].pos < Len(batches[k].chunk)
    /\ LET ant == Cur(k)
       IN  /\ stepped' = [stepped EXCEPT ![ant.id] = @ + 1]
           /\ IF Dies(ant)
              THEN /\ update_ant(ant.id, kill_ant(ants[ant.id]))
                   /\ Finish(k)
              ELSE IF ~HasAntType(ant)
              THEN /\ Finish(k)
                   /\ UNCHANGED <<ants, dirty_ants>>
              ELSE /\ \E act \in determine_ant_action(ant) :
                        batches' = [batches EXCEPT ![k].stage = "exec", ![k].action = act]
                   /\ UNCHANGED <<ants, dirty_ants>>
    /\ UNCHANGED <<colonies, food_sources, pheromone_trails, current_tick,
                   dirty_colonies, dirty_food_sources, db, pc, living_ants,
                   phase_log, last_collect, last_deposit, restarts, elapsed, guards, calls,
                   failed_syncs, drains, run, netVars>>

(***************************************************************************)
(* Movement actions of execute_ant_action.                                 *)
(***************************************************************************)
TrailIds == 1 .. MaxTrailId

\* AntBehaviorManager::create_pheromone_trail; emitted_at is history
NewTrail(id, position, colony_id, type, strength, target_food_id, ant_id) ==
    [id |-> id, colony_id |-> colony_id, trail_type |-> type, position |-> position,
     strength |-> strength, decay_rate |-> 5, expires_at |-> 20000,
     target_food_id |-> target_food_id, ant_id |-> ant_id, emitted_at |-> current_tick]

\* the id is rng.gen::<i32>().abs(); insert_pheromone_trail replaces an equal id
create_pheromone_trail(position, colony_id, type, strength, target_food_id, ant_id) ==
    \E id \in TrailIds :
        pheromone_trails' = MapPut(pheromone_trails, id,
            NewTrail(id, position, colony_id, type, strength, target_food_id, ant_id))

\* the 5% turn of move_ant_randomly, limited to MAX_TURN_RATE
WanderTurns == {-MAX_TURN_RATE, 0, MAX_TURN_RATE}

move_ant_randomly(ant) ==
    \E turn \in WanderTurns :
        LET m == MoveWithBounds(ant.position, ant.angle + turn, ant.speed, WorldBounds)
        IN  update_ant(ant.id, [ants[ant.id] EXCEPT !.position = m.pos, !.angle = m.angle,
                                                    !.state = "Wandering",
                                                    !.last_action_tick = current_tick])

Wander(k) ==
    /\ Working(k, "exec", "Wander")
    /\ move_ant_randomly(Cur(k))
    /\ Finish(k)
    /\ UNCHANGED <<colonies, food_sources, pheromone_trails, current_tick,
                   dirty_colonies, dirty_food_sources, db, pc, living_ants, stepped,
                   phase_log, last_collect, last_deposit, restarts, elapsed, guards, calls,
                   failed_syncs, drains, run, netVars>>

\* scout_explore: keep the heading, a minor change of up to 0.5 rad, or a new heading
ExploreAngles(ant) == {ant.angle, ant.angle + 5, 16}

ExploreEmit(k) ==
    /\ Working(k, "exec", "Explore")
    /\ \E a \in ExploreAngles(Cur(k)) :
        LET ant == Cur(k)
            m == MoveWithBounds(ant.position, a, (ant.speed * 12) \div 10, WorldBounds)
        IN  /\ create_pheromone_trail(m.pos, ant.colony_id, "Exploration", 1000, NoneId, ant.id)
            /\ batches' = [batches EXCEPT ![k].stage = "exec2", ![k].moved = m]
    /\ UNCHANGED <<ants, colonies, food_sources, current_tick, dirty_ants,
                   dirty_colonies, dirty_food_sources, db, pc, living_ants, stepped,
                   phase_log, last_collect, last_deposit, restarts, elapsed, guards, calls,
                   failed_syncs, drains, run, netVars>>

ExploreMove(k) ==
    /\ Working(k, "exec2", "Explore")
    /\ update_ant(Cur(k).id, [ants[Cur(k).id] EXCEPT !.position = batches[k].moved.pos,
                                                     !.angle = batches[k].moved.angle])
    /\ Finish(k)
    /\ UNCHANGED <<colonies, food_sources, pheromone_trails, current_tick,
                   dirty_colonies, dirty_food_sources, db, pc, living_ants, stepped,
                   phase_log, last_collect, last_deposit, restarts, elapsed, guards, calls,
                   failed_syncs, drains, run, netVars>>

\* soldier_patrol: back towards the colony beyond 60.0, else around it
PatrolDirections(ant, colony) ==
    IF Dist2(ant.position, colony.center) > 600 * 600
    THEN {Atan2(colony.center[2] - ant.position[2], colony.center[1] - ant.position[1])}
    ELSE {Atan2(ant.position[2] - colony.center[2], ant.position[1] - colony.center[1])
            + 11 + r : r \in {-2, 0, 2}}

Patrol(k) ==
    /\ Working(k, "exec", "Patrol")
    /\ LET ant == Cur(k)
       IN  IF ant.colony_id \in DOMAIN colonies
           THEN \E d \in PatrolDirections(ant, colonies[ant.colony_id]) :
                    LET m == MoveWithBounds(ant.position, d, ant.speed, WorldBounds)
                    IN  update_ant(ant.id, [ants[ant.id] EXCEPT !.position = m.pos,
                                                                !.angle = m.angle])
           ELSE UNCHANGED <<ants, dirty_ants>>
    /\ Finish(k)
    /\ UNCHANGED <<colonies, food_sources, pheromone_trails, current_tick,
                   dirty_colonies, dirty_food_sources, db, pc, living_ants, stepped,
                   phase_log, last_collect, last_deposit, restarts, elapsed, guards, calls,
                   failed_syncs, drains, run, netVars>>

\* the heading move_ant_towards_food and move_ant_towards_colony steer by
SteerAngle(from, to, infl, max_weight) ==
    LET direct == Atan2(to[2] - from[2], to[1] - from[1])
    IN  IF infl.strength > 500
        THEN Blend(direct, infl.direction, Min(infl.strength, max_weight))
        ELSE direct

SeekFoodMove(k) ==
    /\ Working(k, "exec", "SeekFood")
    /\ LET ant == Cur(k)
           f == batches[k].action[2]
       IN  IF f \notin DOMAIN food_sources
           THEN /\ move_ant_randomly(ant)
                /\ Finish(k)
           ELSE IF food_sources[f].position = ant.position
           THEN /\ Finish(k)
                /\ UNCHANGED <<ants, dirty_ants>>
           ELSE LET infl == get_pheromone_influence(ant.position, ant.colony_id, 300, ant.id)
                    a == SteerAngle(ant.position, food_sources[f].position, infl, 10000)
                    m == MoveWithBounds(ant.position, a, ant.speed, WorldBounds)
                IN  /\ update_ant(ant.id, [ants[ant.id] EXCEPT !.position = m.pos,
                                              !.angle = m.angle, !.state = "SeekingFood",
                                              !.target = TargetFood(f)])
                    /\ batches' = [batches EXCEPT ![k].stage = "exec2", ![k].moved = m]
    /\ UNCHANGED <<colonies, food_sources, pheromone_trails, current_tick,
                   dirty_colonies, dirty_food_sources, db, pc, living_ants, stepped,
                   phase_log, last_collect, last_deposit, restarts, elapsed, guards, calls,
                   failed_syncs, drains, run, netVars>>

SeekFoodEmit(k) ==
    /\ Working(k, "exec2", "SeekFood")
    /\ create_pheromone_trail(batches[k].moved.pos, Cur(k).colony_id, "Home", 3000,
                              NoneId, Cur(k).id)
    /\ Finish(k)
    /\ UNCHANGED <<ants, colonies, food_sources, current_tick, dirty_ants,
                   dirty_colonies, dirty_food_sources, db, pc, living_ants, stepped,
                   phase_log, last_collect, last_deposit, restarts, elapsed, guards, calls,
                   failed_syncs, drains, run, netVars>>

\* speed * (1.0 + strength * 0.5)
BoostedStep(speed, strength) == (speed * (20000 + strength)) \div 20000

\* direction + random_angle * (1 - min(2 * strength, 0.8)), random_angle within pi/4
FollowDirections(direction, strength) ==
    {direction + Sign(r) * ((Abs(r) * (10000 - Min(2 * strength, 8000))) \div 10000)
        : r \in {-8, 0, 8}}

\* follow_pheromone_trail
FollowPheromone(k) ==
    /\ Working(k, "exec", "FollowPheromone")
    /\ \E d \in FollowDirections(batches[k].action[2], batches[k].action[3]) :
        LET ant == Cur(k)
            m == MoveWithBounds(ant.position, d, BoostedStep(ant.speed, batches[k].action[3]),
                                WorldBounds)
            near == FoodNear(m.pos, 150)
        IN  IF near = {}
            THEN update_ant(ant.id, [ants[ant.id] EXCEPT !.position = m.pos, !.angle = m.angle])
            ELSE \E f \in near :
                    IF ant.target # TargetFood(f)
                    THEN update_ant(ant.id, [ants[ant.id] EXCEPT !.position = m.pos,
                                                !.angle = m.angle, !.state = "SeekingFood",
                                                !.target = TargetFood(f)])
                    ELSE update_ant(ant.id, [ants[ant.id] EXCEPT !.position = m.pos,
                                                                 !.angle = m.angle])
    /\ Finish(k)
    /\ UNCHANGED <<colonies, food_sources, pheromone_trails, current_tick,
                   dirty_colonies, dirty_food_sources, db, pc, living_ants, stepped,
                   phase_log, last_collect, last_deposit, restarts, elapsed, guards, calls,
                   failed_syncs, drains, run, netVars>>

\* the angle difference brought into [-PI, PI] and limited to MAX_TURN_RATE
TurnTowards(angle, desired) ==
    LET raw == desired - angle
        diff == IF raw > PI THEN raw - TAU ELSE IF raw < -PI THEN raw + TAU ELSE raw
    IN  angle + Max(-MAX_TURN_RATE, Min(MAX_TURN_RATE, diff))

\* base_speed of the ant's type, 1.0 when the type is missing
BaseSpeed(ant) == IF HasAntType(ant) THEN UnitsToLength(AntTypeOf(ant).base_speed) ELSE 10

\* slow down by 0.1 within 20.0 of the target, else speed up by 0.2
TargetSpeed(ant, target_pos) ==
    IF Dist2(ant.position, target_pos) < 200 * 200
    THEN Max(ant.speed - 1, BaseSpeed(ant) \div 2)
    ELSE Min(ant.speed + 2, (BaseSpeed(ant) * 3) \div 2)

HasTargetPos(ant) ==
    \/ ant.target[1] = "Food" /\ ant.target[2] \in DOMAIN food_sources
    \/ ant.target[1] = "Colony" /\ ant.target[2] \in DOMAIN colonies

TargetPos(ant) ==
    IF ant.target[1] = "Food" THEN food_sources[ant.target[2]].position
    ELSE colonies[ant.target[2]].center

\* move_ant_towards_target
MoveToTarget(k) ==
    /\ Working(k, "exec", "MoveToTarget")
    /\ LET ant == Cur(k)
       IN  IF HasTargetPos(ant)
           THEN LET tp == TargetPos(ant)
                    a == TurnTowards(ant.angle, Atan2(tp[2] - ant.position[2],
                                                      tp[1] - ant.position[1]))
                    v == TargetSpeed(ant, tp)
                    m == MoveWithBounds(ant.position, a, v, WorldBounds)
                IN  update_ant(ant.id, [ants[ant.id] EXCEPT !.position = m.pos,
                                           !.angle = m.angle, !.speed = v,
                                           !.last_action_tick = current_tick])
           ELSE UNCHANGED <<ants, dirty_ants>>
    /\ Finish(k)
    /\ UNCHANGED <<colonies, food_sources, pheromone_trails, current_tick,
                   dirty_colonies, dirty_food_sources, db, pc, living_ants, stepped,
                   phase_log, last_collect, last_deposit, restarts, elapsed, guards, calls,
                   failed_syncs, drains, run, netVars>>

(***************************************************************************)
(* collect_food.                                                           *)
(***************************************************************************)
CollectedAll(amount) == IF amount > 0 THEN 5 ELSE 0

\* food_collected = 5.min(food.amount) when food.amount > 0
Collected(amount) == IF amount > 0 THEN Min(5, amount) ELSE 0

\* update_food_source with the closure of collect_food
CollectDebit(k) ==
    /\ Working(k, "exec", "CollectFood")
    /\ LET f == batches[k].action[2]
       IN  IF f \in DOMAIN food_sources
           THEN LET got == Collected(food_sources[f].amount)
                IN  /\ food_sources' = [food_sources EXCEPT ![f].amount = @ - got]
                    /\ dirty_food_sources' = dirty_food_sources \cup {f}
                    /\ batches' = [batches EXCEPT ![k].stage = "exec2",
                                       ![k].food_collected = got,
                                       ![k].before = food_sources[f].amount,
                                       ![k].after = food_sources[f].amount - got]
           ELSE /\ batches' = [batches EXCEPT ![k].stage = "exec2"]
                /\ UNCHANGED <<food_sources, dirty_food_sources>>
    /\ UNCHANGED <<ants, colonies, pheromone_trails, current_tick, dirty_ants,
                   dirty_colonies, db, pc, living_ants, stepped, phase_log,
                   last_collect, last_deposit, restarts, elapsed, guards, calls,
                   failed_syncs, drains, run, netVars>>

\* the closure of the first update_ant of collect_food
CreditLoad(a, food_id, food_collected) ==
    [a EXCEPT !.state = "CarryingFood", !.target = TargetFood(food_id),
              !.carried_resources = MapPut(a.carried_resources, "food", food_collected),
              !.last_food_source_id = food_id]

CollectCredit(k) ==
    /\ Working(k, "exec2", "CollectFood")
    /\ batches[k].food_collected > 0
    /\ LET id == Cur(k).id
           new == CreditLoad(ants[id], batches[k].action[2], batches[k].food_collected)
       IN  /\ update_ant(id, new)
           /\ last_collect' = [ant |-> id, food_before |-> batches[k].before,
                               food_after |-> batches[k].after,
                               carried_before |-> MapSum(ants[id].carried_resources),
                               carried_after |-> MapSum(new.carried_resources)]
    /\ batches' = [batches EXCEPT ![k].stage = "exec3"]
    /\ UNCHANGED <<colonies, food_sources, pheromone_trails, current_tick,
                   dirty_colonies, dirty_food_sources, db, pc, living_ants, stepped,
                   phase_log, last_deposit, restarts, elapsed, guards, calls,
                   failed_syncs, drains, run, netVars>>

\* nothing was collected: back to Wandering
CollectEmpty(k) ==
    /\ Working(k, "exec2", "CollectFood")
    /\ batches[k].food_collected = 0
    /\ LET id == Cur(k).id
       IN  /\ update_ant(id, [ants[id] EXCEPT !.state = "Wandering", !.target = NoTarget])
           /\ last_collect' = [ant |-> id, food_before |-> batches[k].before,
                               food_after |-> batches[k].after,
                               carried_before |-> MapSum(ants[id].carried_resources),
                               carried_after |-> MapSum(ants[id].carried_resources)]
    /\ Finish(k)
    /\ UNCHANGED <<colonies, food_sources, pheromone_trails, current_tick,
                   dirty_colonies, dirty_food_sources, db, pc, living_ants, stepped,
                   phase_log, last_deposit, restarts, elapsed, guards, calls,
                   failed_syncs, drains, run, netVars>>

CollectEmit(k) ==
    /\ Working(k, "exec3", "CollectFood")
    /\ create_pheromone_trail(Cur(k).position, Cur(k).colony_id, "Food", 8000,
                              batches[k].action[2], Cur(k).id)
    /\ Finish(k)
    /\ UNCHANGED <<ants, colonies, food_sources, current_tick, dirty_ants,
                   dirty_colonies, dirty_food_sources, db, pc, living_ants, stepped,
                   phase_log, last_collect, last_deposit, restarts, elapsed, guards, calls,
                   failed_syncs, drains, run, netVars>>

(***************************************************************************)
(* move_ant_towards_colony and deposit_food.                               *)
(***************************************************************************)
AtColony(ant) ==
    /\ ant.colony_id \in DOMAIN colonies
    /\ Dist2(ant.position, colonies[ant.colony_id].center)
         < colonies[ant.colony_id].radius * colonies[ant.colony_id].radius

\* not inside the colony: one step towards its centre; nothing when the
\* colony is missing or the ant stands on the centre
ReturnMove(k) ==
    /\ Working(k, "exec", "ReturnToColony")
    /\ ~AtColony(Cur(k))
    /\ LET ant == Cur(k)
       IN  IF ant.colony_id \notin DOMAIN colonies
           THEN /\ Finish(k)
                /\ UNCHANGED <<ants, dirty_ants>>
           ELSE IF ant.position = colonies[ant.colony_id].center
           THEN /\ Finish(k)
                /\ UNCHANGED <<ants, dirty_ants>>
           ELSE LET infl == get_home_pheromone_influence(ant.position, ant.colony_id,
                                                         300, ant.id)
                    a == SteerAngle(ant.position, colonies[ant.colony_id].center, infl, 3000)
                    m == MoveWithBounds(ant.position, a, ant.speed, WorldBounds)
                IN  /\ update_ant(ant.id, [ants[ant.id] EXCEPT !.position = m.pos,
                                                               !.angle = m.angle])
                    /\ IF ant.state = "CarryingFood"
                       THEN batches' = [batches EXCEPT ![k].stage = "exec2", ![k].moved = m]
                       ELSE Finish(k)
    /\ UNCHANGED <<colonies, food_sources, pheromone_trails, current_tick,
                   dirty_colonies, dirty_food_sources, db, pc, living_ants, stepped,
                   phase_log, last_collect, last_deposit, restarts, elapsed, guards, calls,
                   failed_syncs, drains, run, netVars>>

ReturnEmit(k) ==
    /\ Working(k, "exec2", "ReturnToColony")
    /\ create_pheromone_trail(batches[k].moved.pos, Cur(k).colony_id, "Food", 5000,
                              NoneId, Cur(k).id)
    /\ Finish(k)
    /\ UNCHANGED <<ants, colonies, food_sources, current_tick, dirty_ants,
                   dirty_colonies, dirty_food_sources, db, pc, living_ants, stepped,
                   phase_log, last_collect, last_deposit, restarts, elapsed, guards, calls,
                   failed_syncs, drains, run, netVars>>

\* the closure of update_colony in deposit_food
AddFood(colony, food_amount) ==
    [colony EXCEPT !.resources = MapPut(colony.resources, "food",
                                        MapGetOr(colony.resources, "food", 0) + food_amount)]

\* food_amount > 0: update_colony
DepositCredit(k) ==
    /\ Working(k, "exec", "ReturnToColony")
    /\ AtColony(Cur(k))
    /\ MapSum(Cur(k).carried_resources) > 0
    /\ LET c == Cur(k).colony_id
           new == AddFood(colonies[c], MapSum(Cur(k).carried_resources))
       IN  /\ colonies' = [colonies EXCEPT ![c] = new]
           /\ dirty_colonies' = dirty_colonies \cup {c}
           /\ batches' = [batches EXCEPT ![k].stage = "dep2",
                              ![k].before = MapGetOr(colonies[c].resources, "food", 0),
                              ![k].after = MapGetOr(new.resources, "food", 0)]
    /\ UNCHANGED <<ants, food_sources, pheromone_trails, current_tick, dirty_ants,
                   dirty_food_sources, db, pc, living_ants, stepped, phase_log,
                   last_collect, last_deposit, restarts, elapsed, guards, calls,
                   failed_syncs, drains, run, netVars>>

\* the food source to go back to: the target, else last_food_source_id
ReturnFoodId(ant) == IF ant.target[1] = "Food" THEN ant.target[2] ELSE ant.last_food_source_id

ClearLoadKeepsLoad(a, food_id) ==
    IF food_id # NoneId /\ food_id \in DOMAIN food_sources /\ food_sources[food_id].amount > 0
    THEN [a EXCEPT !.state = "SeekingFood", !.target = TargetFood(food_id),
                   !.last_food_source_id = food_id]
    ELSE [a EXCEPT !.state = "Wandering", !.target = NoTarget,
                   !.last_food_source_id = NoneId]

\* cache.food_sources.get(&food_id).map(|f| f.amount).unwrap_or(0)
Remaining(food_id) ==
    IF food_id # NoneId /\ food_id \in DOMAIN food_sources
    THEN food_sources[food_id].amount
    ELSE 0

\* the closure of the second update of deposit_food, given what it has
\* read of the food source
Unloaded(a, food_id, remaining) ==
    IF remaining > 0
    THEN [a EXCEPT !.carried_resources = EmptyMap, !.state = "SeekingFood",
                   !.target = TargetFood(food_id), !.last_food_source_id = food_id]
    ELSE [a EXCEPT !.carried_resources = EmptyMap, !.state = "Wandering",
                   !.target = NoTarget, !.last_food_source_id = NoneId]

\* the closure reads the food source while it holds the ant
ClearLoad(a, food_id) == Unloaded(a, food_id, Remaining(food_id))

DepositClear(k) ==
    /\ Working(k, "dep2", "ReturnToColony")
    /\ LET id == Cur(k).id
           new == ClearLoad(ants[id], ReturnFoodId(Cur(k)))
       IN  /\ update_ant(id, new)
           /\ last_deposit' = [ant |-> id, colony_before |-> batches[k].before,
                               colony_after |-> batches[k].after,
                               carried_before |-> MapSum(ants[id].carried_resources),
                               carried_left |-> new.carried_resources]
    /\ batches' = [batches EXCEPT ![k].stage = "dep3"]
    /\ UNCHANGED <<colonies, food_sources, pheromone_trails, current_tick,
                   dirty_colonies, dirty_food_sources, db, pc, living_ants, stepped,
                   phase_log, last_collect, restarts, elapsed, guards, calls,
                   failed_syncs, drains, run, netVars>>

DepositEmit(k) ==
    /\ Working(k, "dep3", "ReturnToColony")
    /\ IF Cur(k).colony_id \in DOMAIN colonies
       THEN create_pheromone_trail(colonies[Cur(k).colony_id].center, Cur(k).colony_id,
                                   "Home", 6000, NoneId, Cur(k).id)
       ELSE UNCHANGED pheromone_trails
    /\ Finish(k)
    /\ UNCHANGED <<ants, colonies, food_sources, current_tick, dirty_ants,
                   dirty_colonies, dirty_food_sources, db, pc, living_ants, stepped,
                   phase_log, last_collect, last_deposit, restarts, elapsed, guards, calls,
                   failed_syncs, drains, run, netVars>>

\* food_amount <= 0: `No food to deposit, just set to wandering'
DepositNothing(k) ==
    /\ Working(k, "exec", "ReturnToColony")
    /\ AtColony(Cur(k))
    /\ MapSum(Cur(k).carried_resources) <= 0
    /\ LET id == Cur(k).id
           c == Cur(k).colony_id
           new == [ants[id] EXCEPT !.state = "Wandering", !.target = NoTarget]
       IN  /\ update_ant(id, new)
           /\ last_deposit' = [ant |-> id,
                               colony_before |-> MapGetOr(colonies[c].resources, "food", 0),
                               colony_after |-> MapGetOr(colonies[c].resources, "food", 0),
                               carried_before |-> MapSum(ants[id].carried_resources),
                               carried_left |-> new.carried_resources]
    /\ Finish(k)
    /\ UNCHANGED <<colonies, food_sources, pheromone_trails, current_tick,
                   dirty_colonies, dirty_food_sources, db, pc, living_ants, stepped,
                   phase_log, last_collect, restarts, elapsed, guards, calls,
                   failed_syncs, drains, run, netVars>>

(***************************************************************************)
(* 4. Colony management: colony_spawning_system and                        *)
(* colony_resource_consumption_system.                                     *)
(***************************************************************************)
SimulationConfig == [spawn_tick_interval |-> 2, max_spawn_batch_size |-> 2]

\* has_sufficient_resources: a kind the colony does not hold counts as 0
has_sufficient_resources(resources, required) ==
    \A k \in DOMAIN required : MapGetOr(resources, k, 0) >= required[k]

\* a consumption that pays in food only
ConsumeFoodOnly(resources, cost) ==
    [k \in DOMAIN resources |->
        IF k \in DOMAIN cost /\ k = "food" THEN Max(resources[k] - cost[k], 0)
        ELSE resources[k]]

\* consume_spawning_resources: the kinds of the cost the colony holds are
\* lowered, not below 0
consume_spawning_resources(resources, cost) ==
    [k \in DOMAIN resources |->
        IF k \in DOMAIN cost THEN Max(resources[k] - cost[k], 0) ELSE resources[k]]

\* consume_spawning_resources, n times over
RECURSIVE Consumed(_, _, _)
Consumed(resources, cost, n) ==
    IF n = 0 THEN resources
    ELSE Consumed(consume_spawning_resources(resources, cost), cost, n - 1)

\* the loop over the batch: an ant is counted while the stock suffices, and
\* its cost is consumed ahead to look at the next ant
RECURSIVE CountAffordable(_, _, _)
CountAffordable(resources, cost, wanted) ==
    IF wanted = 0 \/ ~has_sufficient_resources(resources, cost) THEN 0
    ELSE 1 + CountAffordable(consume_spawning_resources(resources, cost), cost, wanted - 1)

\* the stock is restored after the count: every kind of the cost the colony
\* holds gets the cost back for each counted ant
Restored(resources, cost, n) ==
    [k \in DOMAIN resources |->
        IF k \in DOMAIN cost THEN resources[k] + n * cost[k] ELSE resources[k]]

\* has_sufficient_resources, checked once per ant of the batch
Affordable(colony, wanted) ==
    CountAffordable(colony.resources, colony.upgrade_cost, wanted)

\* a batch whatever the population and the tick
AntsToSpawnAnyway(colony, population, tick) ==
    Affordable(colony, SimulationConfig.max_spawn_batch_size)

\* number of ants colony_spawning_system spawns for a colony at this tick
AntsToSpawn(colony, population, tick) ==
    IF population < colony.max_population /\ tick % SimulationConfig.spawn_tick_interval = 0
    THEN Affordable(colony, Min(colony.max_population - population,
                                SimulationConfig.max_spawn_batch_size))
    ELSE 0

\* spawn_ant_batch_with_ai: colony_position + (cos, sin) * distance; no clamp
SpawnPosition(center, angle, distance) ==
    <<center[1] + Scale10(CosT(angle), distance), center[2] + Scale10(SinT(angle), distance)>>

SpawnedAnt(id, colony_id, position) ==
    [id |-> id, colony_id |-> colony_id, ant_type_id |-> 1, position |-> position,
     angle |-> 0, speed |-> 20, health |-> 100, energy |-> 100, age_ticks |-> 0,
     state |-> "Wandering", target |-> NoTarget, carried_resources |-> EmptyMap,
     last_action_tick |-> 0, last_food_source_id |-> NoneId]

\* consume_spawning_resources for n ants, then every 1000 ticks the upkeep
SpendResources(colony, n, population, tick) ==
    LET cost == colony.upgrade_cost
        paid == Consumed(Restored(Consumed(colony.resources, cost, n), cost, n), cost, n)
    IN  IF tick % 1000 = 0
        THEN [r \in DOMAIN paid |-> Max(paid[r] - population \div 10, 0)]
        ELSE paid

\* colony_spawning_system: every colony takes the number of all ants as
\* its population and spawns its batch; the ants spawned for one colony
\* are not yet counted for the next
ColonyPhase ==
    /\ pc = "colony"
    /\ LET population == Cardinality(DOMAIN ants)
           n == [c \in DOMAIN colonies |->
                    AntsToSpawn(colonies[c], population, current_tick)]
           first == [c \in DOMAIN colonies |->
                        population + SumOver(n, {b \in DOMAIN colonies : b < c})]
           ids == (population + 1) .. (population + SumOver(n, DOMAIN colonies))
           owner == [i \in ids |->
                        CHOOSE c \in DOMAIN colonies : first[c] < i /\ i <= first[c] + n[c]]
           spawning == {c \in DOMAIN colonies : n[c] > 0}
       IN  /\ \E a \in [spawning -> {0, 16, 32, 48}], far \in [spawning -> BOOLEAN] :
                ants' = [i \in DOMAIN ants \cup ids |->
                            IF i \in DOMAIN ants THEN ants[i]
                            ELSE LET c == owner[i]
                                     d == IF far[c] THEN colonies[c].radius - 1 ELSE 0
                                 IN  SpawnedAnt(i, c, SpawnPosition(colonies[c].center,
                                                                    a[c], d))]
           /\ dirty_ants' = dirty_ants \cup ids
           /\ colonies' = [c \in DOMAIN colonies |->
                              [colonies[c] EXCEPT
                                  !.population = population,
                                  !.resources = SpendResources(colonies[c], n[c], population,
                                                               current_tick)]]
    /\ pc' = IF current_tick % db_sync_interval = 0 THEN "sync" ELSE "broadcast"
    /\ Log("colony")
    /\ UNCHANGED <<food_sources, pheromone_trails, current_tick, dirty_colonies,
                   dirty_food_sources, db, living_ants, batches, stepped,
                   last_collect, last_deposit, restarts, elapsed, guards, calls,
                   failed_syncs, drains, run, netVars>>

(***************************************************************************)
(* sync_to_database, the batch updates of DatabaseManager, the broadcast.  *)
(***************************************************************************)
\* `as i32' of a length and of an angle in radians
LengthToI32(v) == Sign(v) * (Abs(v) \div 10)

AngleToI32(a) == (a * 98) \div 1000

state_str(state) ==
    CASE state = "Wandering" -> "wandering"
      [] state = "SeekingFood" -> "seeking_food"
      [] state = "CarryingFood" -> "carrying_food"
      [] state = "Following" -> "following"
      [] state = "Exploring" -> "exploring"
      [] state = "Patrolling" -> "patrolling"
      [] OTHER -> "dead"

\* NOW() of a statement: the time of the sync that runs it, in ticks since
\* the engine first started; the syncs of two ticks run at different times
Now == elapsed

\* a write that adds to the columns instead of setting them
AntRowAdds(row, ant) ==
    [row EXCEPT !.position_x = @ + LengthToI32(ant.position[1]),
                !.age_ticks = @ + ant.age_ticks + 1,
                !.last_updated = Now]

\* the columns batch_update_ants sets
AntRowUpdate(row, ant) ==
    [row EXCEPT !.position_x = LengthToI32(ant.position[1]),
                !.position_y = LengthToI32(ant.position[2]),
                !.angle = AngleToI32(ant.angle),
                !.current_speed = LengthToI32(ant.speed),
                !.health = ant.health, !.energy = ant.energy,
                !.age_ticks = ant.age_ticks, !.state = state_str(ant.state),
                !.last_updated = Now]

batch_update_ants(rows, ids) ==
    [i \in DOMAIN rows |->
        IF i \in ids /\ i \in DOMAIN ants THEN AntRowUpdate(rows[i], ants[i]) ELSE rows[i]]

batch_update_colonies(rows, ids) ==
    [i \in DOMAIN rows |->
        IF i \in ids /\ i \in DOMAIN colonies
        THEN [rows[i] EXCEPT !.population = colonies[i].population] ELSE rows[i]]

batch_update_food_sources(rows, ids) ==
    [i \in DOMAIN rows |->
        IF i \in ids /\ i \in DOMAIN food_sources
        THEN [rows[i] EXCEPT !.amount = food_sources[i].amount] ELSE rows[i]]

\* the rows after the first `done' statements of sync_to_database succeeded
RowsAfter(done) ==
    [ants |-> IF done >= 1 THEN batch_update_ants(db.ants, dirty_ants) ELSE db.ants,
     colonies |-> IF done >= 2 THEN batch_update_colonies(db.colonies, dirty_colonies)
                  ELSE db.colonies,
     food_sources |-> IF done >= 3
                      THEN batch_update_food_sources(db.food_sources, dirty_food_sources)
                      ELSE db.food_sources,
     current_tick |-> IF done >= 4 THEN current_tick ELSE db.current_tick,
     ant_batches |-> IF done >= 1 THEN db.ant_batches + 1 ELSE db.ant_batches]

FlagsCleared(done, flags) == {}

\* clear_dirty_flags is reached when the four statements have succeeded
FlagsAfter(done, flags) == IF done = 4 THEN {} ELSE flags

\* sync_to_database when its first `done' statements succeed: a failing
\* statement ends it, the dirty flags stay
Sync(done) ==
    /\ pc = "sync"
    /\ db' = RowsAfter(done)
    /\ dirty_ants' = FlagsAfter(done, dirty_ants)
    /\ dirty_colonies' = FlagsAfter(done, dirty_colonies)
    /\ dirty_food_sources' = FlagsAfter(done, dirty_food_sources)
    /\ failed_syncs' = IF done = 4 THEN failed_syncs
                       ELSE failed_syncs \cup {elapsed}
    /\ pc' = "broadcast"
    /\ Log("sync")
    /\ UNCHANGED <<ants, colonies, food_sources, pheromone_trails, current_tick,
                   living_ants, batches, stepped, last_collect, last_deposit,
                   restarts, elapsed, guards, calls, drains, run, netVars>>

SyncToDatabase == \E done \in 0 .. 4 : Sync(done)

(***************************************************************************)
(* The messages to the websocket clients: create_delta_update,             *)
(* broadcast_websocket_update and send_immediate_fullstate.  A Vec of      *)
(* entities is a function from the ids to the entities: the ids of a Vec   *)
(* collected from a map of the cache are distinct.                         *)
(***************************************************************************)
\* SimulationMessage::FullState of the cache
FullState(tick, world) ==
    [type |-> "FullState", tick |-> tick, ants |-> world.ants,
     colonies |-> world.colonies, food_sources |-> world.food_sources,
     pheromone_trails |-> world.pheromone_trails]

\* the test of the filter of updated_ants
AntChanged(prev_ant, current_ant) ==
    \/ prev_ant.position # current_ant.position
    \/ prev_ant.state # current_ant.state
    \/ prev_ant.health # current_ant.health
    \/ prev_ant.energy # current_ant.energy

\* the test of the filter of updated_colonies
ColonyChanged(prev_colony, current_colony) ==
    \/ prev_colony.population # current_colony.population
    \/ prev_colony.resources # current_colony.resources

FoodGrew(prev_food, current_food) == prev_food.amount < current_food.amount

\* the test of the filter of updated_food_sources
FoodChanged(prev_food, current_food) == prev_food.amount # current_food.amount

\* current.iter().filter(|c| prev.iter().find(same id).map_or(true, changed))
updated_ants(current, prev) ==
    [id \in {i \in DOMAIN current : i \notin DOMAIN prev \/ AntChanged(prev[i], current[i])}
        |-> current[id]]

updated_colonies(current, prev) ==
    [id \in {i \in DOMAIN current :
                i \notin DOMAIN prev \/ ColonyChanged(prev[i], current[i])}
        |-> current[id]]

updated_food_sources(current, prev) ==
    [id \in {i \in DOMAIN current : i \notin DOMAIN prev \/ FoodChanged(prev[i], current[i])}
        |-> current[id]]

\* the ids of prev that no entry of current has
RemovedIds(current, prev) == {i \in DOMAIN prev : i \notin DOMAIN current}

create_delta_update(tick, current, prev) ==
    [type |-> "DeltaUpdate", tick |-> tick,
     updated_ants |-> updated_ants(current.ants, prev.ants),
     updated_colonies |-> updated_colonies(current.colonies, prev.colonies),
     updated_food_sources |-> updated_food_sources(current.food_sources, prev.food_sources),
     new_pheromone_trails |-> current.pheromone_trails,
     removed_ant_ids |-> RemovedIds(current.ants, prev.ants),
     removed_food_source_ids |-> RemovedIds(current.food_sources, prev.food_sources)]

\* WebSocketManager::client_count: the sockets handle_socket is serving
client_count == Cardinality({c \in Clients : subscribers[c].status = "connected"})

\* WebSocketManager::broadcast; engine_states keeps the cache the message
\* was taken from and whether it is the periodic message of a tick
Send(message, periodic) ==
    /\ channel' = Append(channel, message)
    /\ engine_states' = Append(engine_states, [world |-> World, periodic |-> periodic])

\* if self.previous_ants.is_empty()
FirstBroadcast(prev) == DOMAIN prev.ants = {}

\* broadcast_websocket_update ends the tick
Broadcast ==
    /\ pc = "broadcast"
    /\ pc' = IF run.is_running THEN "idle" ELSE "stopped"
    /\ Log("broadcast")
    /\ IF client_count = 0
       THEN UNCHANGED <<previous, channel, engine_states>>
       ELSE /\ Send(IF FirstBroadcast(previous) THEN FullState(current_tick, World)
                    ELSE create_delta_update(current_tick, World, previous), TRUE)
            /\ previous' = [ants |-> ants, colonies |-> colonies,
                            food_sources |-> food_sources]
    /\ UNCHANGED <<ants, colonies, food_sources, pheromone_trails, current_tick,
                   dirty_ants, dirty_colonies, dirty_food_sources, db, living_ants,
                   batches, stepped, last_collect, last_deposit, restarts, elapsed,
                   guards, calls, failed_syncs, drains, run, subscribers,
                   fullstate_requests>>

\* stop() ends the loop between two ticks (without a last sync) and the
\* engine is constructed again on the rows
Restart ==
    /\ pc = "idle"
    /\ restarts < MaxRestarts
    /\ restarts' = restarts + 1
    /\ ants' = LoadAnts(db.ants)
    /\ colonies' = LoadColonies(db.colonies)
    /\ food_sources' = LoadFoodSources(db.food_sources)
    /\ pheromone_trails' = EmptyMap
    /\ current_tick' = 0
    /\ dirty_ants' = DOMAIN LoadAnts(db.ants)
    /\ dirty_colonies' = DOMAIN db.colonies
    /\ dirty_food_sources' = DOMAIN LoadFoodSources(db.food_sources)
    /\ pc' = "idle"
    /\ living_ants' = <<>>
    /\ batches' = <<>>
    /\ stepped' = [a \in DOMAIN LoadAnts(db.ants) |-> 0]
    /\ phase_log' = <<>>
    /\ last_collect' = NoCollect
    /\ last_deposit' = NoDeposit
    /\ previous' = NoSnapshot
    /\ run' = [is_running |-> TRUE, at |-> 0, where |-> "none"]
    /\ UNCHANGED <<db, elapsed, guards, calls, failed_syncs, drains, channel, subscribers,
                   fullstate_requests, engine_states>>

\* one more ant than the rows hold may have been spawned
BatchIds == 1 .. NumChunks(NumAnts + 1)

AntStep(k) ==
    \/ BeginStep(k)
    \/ Wander(k)
    \/ ExploreEmit(k)
    \/ ExploreMove(k)
    \/ Patrol(k)
    \/ SeekFoodMove(k)
    \/ SeekFoodEmit(k)
    \/ FollowPheromone(k)
    \/ MoveToTarget(k)
    \/ CollectDebit(k)
    \/ CollectCredit(k)
    \/ CollectEmpty(k)
    \/ CollectEmit(k)
    \/ ReturnMove(k)
    \/ ReturnEmit(k)
    \/ DepositCredit(k)
    \/ DepositClear(k)
    \/ DepositEmit(k)
    \/ DepositNothing(k)

Next ==
    \/ TickBegin
    \/ EnvironmentPhase
    \/ PheromonePhase
    \/ AgentsBegin
    \/ \E k \in BatchIds : AntStep(k)
    \/ AgentsJoin
    \/ ColonyPhase
    \/ SyncToDatabase
    \/ Broadcast
    \/ Restart

vars == <<worldVars, cacheVars, failed_syncs, drains, run, netVars>>

Spec == Init /\ [][Next]_vars

(***************************************************************************)
(* The websocket clients: WebSocketManager::handle_socket, and the branch  *)
(* of the loop's select that serves their requests.  The loop meets the    *)
(* clients where it counts them and sends: in the broadcast that ends a    *)
(* tick and in the select.  What a client does while a tick is processed   *)
(* has the effect it has once the loop is back in the select, so sockets   *)
(* open, read and close there; a request may also be queued mid-tick.      *)
(***************************************************************************)
\* cache.simulation_id
SimulationId == 1

\* the simulation ids a client may name
SimulationIds == {SimulationId, SimulationId + 1}

BetweenTicks == pc = "idle"

\* the variables no step of a client touches
engineVars == <<worldVars, cacheVars, failed_syncs, drains, run, previous>>

\* handle_socket: tx.subscribe(), connected_clients += 1
Connect(c) ==
    /\ BetweenTicks
    /\ subscribers[c].status = "absent"
    /\ subscribers' = [subscribers EXCEPT ![c] =
           [Absent EXCEPT !.status = "connected", !.next = Len(channel) + 1,
                          !.open = TRUE]]
    /\ UNCHANGED <<engineVars, channel, fullstate_requests, engine_states>>

\* the client closes: handle_incoming or handle_outgoing ends, the select of
\* handle_socket returns, connected_clients -= 1
Disconnect(c) ==
    /\ BetweenTicks
    /\ subscribers[c].status = "connected"
    /\ subscribers' = [subscribers EXCEPT ![c] = [Absent EXCEPT !.status = "ended"]]
    /\ UNCHANGED <<engineVars, channel, fullstate_requests, engine_states>>

\* handle_incoming on Subscribe or RequestFullState: the id goes to the
\* queue; asked is the place in channel from which the answer to the last
\* request for this simulation can stand
ClientSend(c) ==
    /\ pc \in {"idle", "broadcast"}
    /\ subscribers[c].status = "connected"
    /\ subscribers[c].sent < MaxRequests
    /\ \E id \in SimulationIds :
          /\ fullstate_requests' = Append(fullstate_requests, id)
          /\ subscribers' = [subscribers EXCEPT
                ![c].sent = @ + 1,
                ![c].asked = IF id = SimulationId THEN Len(channel) + 1 ELSE @]
    /\ UNCHANGED <<engineVars, channel, engine_states>>

\* the receiver of a tokio broadcast channel is behind by more than the
\* capacity: recv() returns Err(Lagged)
Lagged(sub) == Len(channel) - sub.next + 1 > ChannelCapacity

Merge(old, new) ==
    [k \in DOMAIN old \cup DOMAIN new |-> IF k \in DOMAIN new THEN new[k] ELSE old[k]]

\* the client rebuilds the state: a FullState replaces it; of a DeltaUpdate
\* the updated entities replace or extend it, the new trails are added, the
\* removed ids deleted
ApplyMessage(state, m) ==
    IF m.type = "FullState"
    THEN [tick |-> m.tick, ants |-> m.ants, colonies |-> m.colonies,
          food_sources |-> m.food_sources, pheromone_trails |-> m.pheromone_trails]
    ELSE [tick |-> m.tick,
          ants |-> MapRemove(Merge(state.ants, m.updated_ants), m.removed_ant_ids),
          colonies |-> Merge(state.colonies, m.updated_colonies),
          food_sources |-> MapRemove(Merge(state.food_sources, m.updated_food_sources),
                                     m.removed_food_source_ids),
          pheromone_trails |-> Merge(state.pheromone_trails, m.new_pheromone_trails)]

\* one turn of the loop of handle_outgoing: rx.recv(), to_string, send.
\* Err(Lagged) ends the loop and with it handle_socket; a message that does
\* not serialise is skipped
Deliver(c) ==
    /\ BetweenTicks
    /\ subscribers[c].status = "connected"
    /\ subscribers[c].next <= Len(channel)
    /\ LET sub == subscribers[c]
           m == channel[sub.next]
       IN  IF Lagged(sub)
           THEN subscribers' = [subscribers EXCEPT ![c] =
                    [Absent EXCEPT !.status = "ended", !.open = TRUE]]
           ELSE \/ subscribers' = [subscribers EXCEPT ![c] =
                      [sub EXCEPT !.next = @ + 1,
                                  !.state = ApplyMessage(sub.state, m)]]
                \/ /\ sub.lost < MaxLost
                   /\ subscribers' = [subscribers EXCEPT ![c].next = @ + 1,
                                                         ![c].lost = @ + 1]
    /\ UNCHANGED <<engineVars, channel, fullstate_requests, engine_states>>

\* the second branch of the select of start: a request of the queue;
\* send_immediate_fullstate sends the cache as it is at current_tick
RequestedNowhere(requested_sim_id) == FALSE

\* if requested_sim_id == cache.simulation_id
RequestedHere(requested_sim_id) == requested_sim_id = SimulationId

ServeRequest ==
    /\ pc = "idle"
    /\ fullstate_requests # <<>>
    /\ fullstate_requests' = Tail(fullstate_requests)
    /\ IF RequestedHere(Head(fullstate_requests)) /\ client_count > 0
       THEN Send(FullState(current_tick, World), FALSE)
       ELSE UNCHANGED <<channel, engine_states>>
    /\ UNCHANGED <<engineVars, subscribers>>

NetRows == {WorldRows(w) : w \in NetWorlds}

NetInit ==
    /\ db \in NetRows
    /\ Construct(db)
    /\ restarts = 0
    /\ elapsed = 0
    /\ CacheIdle
    /\ failed_syncs = {}
    /\ DrainIdle
    /\ Running
    /\ NetIdle

\* the behaviours the workers of NetWorlds are given
NetAntStep(k) ==
    \/ BeginStep(k)
    \/ Wander(k)
    \/ SeekFoodMove(k)
    \/ SeekFoodEmit(k)
    \/ MoveToTarget(k)

\* the loop with syncs that succeed, and the clients
NetNext ==
    \/ TickBegin
    \/ EnvironmentPhase
    \/ PheromonePhase
    \/ AgentsBegin
    \/ \E k \in BatchIds : NetAntStep(k)
    \/ AgentsJoin
    \/ ColonyPhase
    \/ Sync(4)
    \/ Broadcast
    \/ ServeRequest
    \/ \E c \in Clients : Connect(c)
    \/ \E c \in Clients : ClientSend(c)
    \/ \E c \in Clients : Deliver(c)
    \/ \E c \in Clients : Disconnect(c)

NetSpec == NetInit /\ [][NetNext]_vars

\* a world whose only ant has no type: its step ends before an action is chosen
QuietRowsOf ==
    [WorldRows(<<Untyped, Gone, Gone, FoodRow(8, 0, 1), SmallColony(1, 0)>>)
        EXCEPT !.ants = [i \in 1 .. NumAnts |-> IF i = 1 THEN Untyped ELSE Gone]]

QuietRows == {QuietRowsOf}

QuietInit ==
    /\ db \in QuietRows
    /\ Construct(db)
    /\ restarts = 0
    /\ elapsed = 0
    /\ CacheIdle
    /\ failed_syncs = {}
    /\ DrainIdle
    /\ Running
    /\ NetIdle

\* the steps of the loop on this world
QuietLoop ==
    \/ TickBegin
    \/ EnvironmentPhase
    \/ PheromonePhase
    \/ AgentsBegin
    \/ \E k \in BatchIds : BeginStep(k)
    \/ AgentsJoin
    \/ ColonyPhase
    \/ Sync(4)
    \/ Broadcast

QuietNext ==
    \/ QuietLoop
    \/ ServeRequest
    \/ \E c \in Clients : Connect(c)
    \/ \E c \in Clients : ClientSend(c)
    \/ \E c \in Clients : Deliver(c)
    \/ \E c \in Clients : Disconnect(c)

\* a worker in SeekingFood ten units south of its food source, heading
\* east at half its base speed, in a colony that is full
Hunter ==
    [AntRow(1, 31, 20, 0, 100, 0, "seeking_food", "food_source", 1, EmptyMap)
        EXCEPT !.current_speed = 1]

HuntRows ==
    [WorldRows(<<Hunter, Gone, Gone, FoodRow(8, 0, 0), SmallColony(1, 0)>>)
        EXCEPT !.ants = [i \in 1 .. NumAnts |-> IF i = 1 THEN Hunter ELSE Gone]]

HuntInit ==
    /\ db = HuntRows
    /\ Construct(db)
    /\ restarts = 0
    /\ elapsed = 0
    /\ CacheIdle
    /\ failed_syncs = {}
    /\ DrainIdle
    /\ Running
    /\ NetIdle

HuntTickBegin == BeginTick(MaxHuntTicks)

\* the loop on the world of the hunter
HuntNext ==
    \/ HuntTickBegin
    \/ EnvironmentPhase
    \/ PheromonePhase
    \/ AgentsBegin
    \/ \E k \in BatchIds : BeginStep(k)
    \/ \E k \in BatchIds : MoveToTarget(k)
    \/ AgentsJoin
    \/ ColonyPhase
    \/ Sync(4)
    \/ Broadcast

HuntSpec == HuntInit /\ [][HuntNext]_vars

\* a world one food source below the cap: sources that neither spoil nor
\* grow, an ant without a type, a full colony
FoodRows ==
    [QuietRowsOf EXCEPT !.food_sources = [f \in 1 .. (max_food_sources - 1) |-> FoodRow(8, 0, 0)]]

FoodInit ==
    /\ db = FoodRows
    /\ Construct(db)
    /\ restarts = 0
    /\ elapsed = 0
    /\ CacheIdle
    /\ failed_syncs = {}
    /\ DrainIdle
    /\ Running
    /\ NetIdle

FoodTickBegin == BeginTick(MaxFoodTicks)

\* the loop on the world near the cap
FoodNext ==
    \/ FoodTickBegin
    \/ EnvironmentPhase
    \/ PheromonePhase
    \/ AgentsBegin
    \/ \E k \in BatchIds : BeginStep(k)
    \/ AgentsJoin
    \/ ColonyPhase
    \/ Sync(4)
    \/ Broadcast

FoodSpec == FoodInit /\ [][FoodNext]_vars

\* a trail of the field, as create_pheromone_trail makes it
TrailAt(id, x, type, strength) ==
    [id |-> id, colony_id |-> 1, trail_type |-> type, position |-> <<x, 300>>,
     strength |-> strength, decay_rate |-> 5, expires_at |-> 20000,
     target_food_id |-> NoneId, ant_id |-> 1, emitted_at |-> 0]

\* the fields the merging is applied to: NumTrails trails on a line,
\* numbered from west to east, on the same spot or three, four or seven
\* units apart, of two types and three strengths
TrailFields ==
    {[id \in 1 .. NumTrails |-> TrailAt(id, x[id], type[id], strength[id])] :
        x \in {w \in [1 .. NumTrails -> {100, 130, 170}] :
                  \A i, j \in 1 .. NumTrails : i < j => w[i] <= w[j]},
        type \in [1 .. NumTrails -> {"Food", "Home"}],
        strength \in [1 .. NumTrails -> {1000, 2000, 3000}]}

MergeInit ==
    /\ db \in QuietRows
    /\ \E trails \in TrailFields : Loaded(db, trails)
    /\ restarts = 0
    /\ elapsed = 0
    /\ CacheIdle
    /\ failed_syncs = {}
    /\ DrainIdle
    /\ Running
    /\ NetIdle

\* the merging system applied to the fields
MergeSpec == MergeInit /\ [][pheromone_merging_system]_vars

\* worlds with one food source of any small amount, regeneration rate and
\* spoilage rate, an ant without a type and a full colony
SpoilRows ==
    {[QuietRowsOf EXCEPT !.food_sources = [f \in {1} |-> FoodRow(amount, rate, spoilage)]] :
        amount \in 1 .. 3, rate \in 0 .. 2, spoilage \in 0 .. 2}

SpoilInit ==
    /\ db \in SpoilRows
    /\ Construct(db)
    /\ restarts = 0
    /\ elapsed = 0
    /\ CacheIdle
    /\ failed_syncs = {}
    /\ DrainIdle
    /\ Running
    /\ NetIdle

\* the loop on the worlds of the spoiling food
SpoilSpec == SpoilInit /\ [][QuietLoop]_vars

\* worlds of ants at the end of their life: a worker with its last unit of
\* energy, a soldier that has reached its lifespan, an ant without a type
MortalRows ==
    {[QuietRowsOf EXCEPT !.ants = rows] :
        rows \in [1 .. NumAnts -> {FarWorker(1), Soldier(2), Untyped}]}

MortalInit ==
    /\ db \in MortalRows
    /\ Construct(db)
    /\ restarts = 0
    /\ elapsed = 0
    /\ CacheIdle
    /\ failed_syncs = {}
    /\ DrainIdle
    /\ Running
    /\ NetIdle

\* the loop on the worlds of the mortal ants: the interval timer fires and
\* every phase returns, so a loop that can take a step takes it
MortalFairSpec == MortalInit /\ [][QuietLoop]_vars /\ WF_vars(QuietLoop)

\* the stocks and the spawn costs of the colonies that may spawn: one or two
\* kinds in stock, a cost in one or both of them
StockMaps == UNION {[kinds -> {0, 5, 10, 20}] : kinds \in {{"food"}, {"food", "water"}}}

CostMaps == UNION {[kinds -> {5, 10}] : kinds \in {{"food"}, {"water"}, {"food", "water"}}}

\* the quiet world with a colony that has room for up to two more ants
SpawnRows ==
    {[QuietRowsOf EXCEPT !.colonies =
          [c \in {1} |-> [SmallColony(1, room)[c] EXCEPT !.resources = stock,
                                                         !.upgrade_cost = cost]]] :
        room \in 0 .. 2, stock \in StockMaps, cost \in CostMaps}

SpawnInit ==
    /\ db \in SpawnRows
    /\ Construct(db)
    /\ restarts = 0
    /\ elapsed = 0
    /\ CacheIdle
    /\ failed_syncs = {}
    /\ DrainIdle
    /\ Running
    /\ NetIdle

SpawnSpec == SpawnInit /\ [][QuietLoop]_vars

\* a worker out of sight of the food source, and two trails around it: on
\* its spot or 3 or 15 units west of it, Food or Home, weak to strong,
\* of its colony or another, laid by the worker itself or by another ant
SenseRows ==
    [QuietRowsOf EXCEPT !.ants = [i \in 1 .. NumAnts |-> IF i = 1 THEN FarWorker(100)
                                                         ELSE Gone]]

SenseTrail(id) ==
    {[TrailAt(id, x, type, strength) EXCEPT !.colony_id = colony, !.ant_id = ant] :
        x \in {800, 920, 950}, type \in {"Food", "Home"},
        strength \in {800, 1200, 3000}, colony \in {1, 2}, ant \in {1, 2}}

SenseFields == {[t \in {1, 2} |-> IF t = 1 THEN a ELSE b] :
                    a \in SenseTrail(1), b \in SenseTrail(2)}

SenseInit ==
    /\ db = SenseRows
    /\ \E trails \in SenseFields : Loaded(db, trails)
    /\ restarts = 0
    /\ elapsed = 0
    /\ CacheIdle
    /\ failed_syncs = {}
    /\ DrainIdle
    /\ Running
    /\ NetIdle

\* the loop on the world of the worker among the trails
SenseNext ==
    \/ TickBegin
    \/ EnvironmentPhase
    \/ PheromonePhase
    \/ AgentsBegin
    \/ \E k \in BatchIds : BeginStep(k)
    \/ \E k \in BatchIds : Wander(k)
    \/ \E k \in BatchIds : FollowPheromone(k)
    \/ AgentsJoin
    \/ ColonyPhase
    \/ Sync(4)
    \/ Broadcast

SenseSpec == SenseInit /\ [][SenseNext]_vars

\* workers out of sight of the food whose rows hold a state the engine
\* itself never sets
IdleWorker(state) == AntRow(1, 95, 30, 3, 100, 0, state, "none", NoneId, EmptyMap)

IdleRows ==
    {WorldRows(<<IdleWorker(s[1]), IdleWorker(s[2]), IdleWorker(s[3]), FoodRow(8, 0, 0),
                 HomeColony>>) :
        s \in [1 .. 3 -> {"following", "exploring", "patrolling"}]}

\* the worlds of Spec and the worlds of the idle workers
StateInit ==
    /\ db \in InitialRows \cup IdleRows
    /\ Construct(db)
    /\ restarts = 0
    /\ elapsed = 0
    /\ CacheIdle
    /\ failed_syncs = {}
    /\ DrainIdle
    /\ Running
    /\ NetIdle

StateSpec == StateInit /\ [][Next]_vars

RestartTickBegin == BeginTick(MaxRunTicks)

\* the loop with a stop and a new start of the engine on the rows: ticks
\* before and after the restart
RestartNext ==
    \/ RestartTickBegin
    \/ EnvironmentPhase
    \/ PheromonePhase
    \/ AgentsBegin
    \/ \E k \in BatchIds : BeginStep(k)
    \/ AgentsJoin
    \/ ColonyPhase
    \/ Sync(4)
    \/ Broadcast
    \/ Restart

RestartSpec == MortalInit /\ [][RestartNext]_vars

\* two full colonies and ants without a type, each owned by one of the two
TwoColonyRows ==
    {[ants |-> [i \in 1 .. NumAnts |-> [Untyped EXCEPT !.colony_id = own[i]]],
      colonies |-> [c \in {1, 2} |-> ColonyRows(20 + 40 * (c - 1), 0)[1]],
      food_sources |-> [f \in {1} |-> FoodRow(8, 0, 0)],
      current_tick |-> 0,
      ant_batches |-> 0] : own \in [1 .. NumAnts -> {1, 2}]}

ColonyInit ==
    /\ db \in TwoColonyRows
    /\ Construct(db)
    /\ restarts = 0
    /\ elapsed = 0
    /\ CacheIdle
    /\ failed_syncs = {}
    /\ DrainIdle
    /\ Running
    /\ NetIdle

\* the loop on the worlds with two colonies
ColonySpec == ColonyInit /\ [][QuietLoop]_vars

\* stop(): is_running = false; at and where keep the tick and the place
\* of the loop at the call
Stop ==
    /\ run.is_running
    /\ pc # "stopped"
    /\ run' = [is_running |-> FALSE, at |-> elapsed, where |-> pc]
    /\ UNCHANGED <<worldVars, cacheVars, failed_syncs, drains, netVars>>

\* the loop on the quiet world with a caller of stop(); the loop looks at
\* is_running when an iteration is over
StopNext ==
    \/ QuietLoop
    \/ Stop

StopSpec == QuietInit /\ [][StopNext]_vars

\* the runtime keeps polling the loop and the task of every socket: a tick
\* that has begun is worked through, a request in the queue is received
\* by the select, a message in the channel is received by handle_outgoing
NetFairSpec ==
    /\ QuietInit
    /\ [][QuietNext]_vars
    /\ WF_vars(QuietLoop)
    /\ WF_vars(ServeRequest)
    /\ \A c \in Clients : WF_vars(Deliver(c))

(***************************************************************************)
(* The cache under parallel callers: SimulationCache::update_ant,          *)
(* update_colony, update_food_source, get_ant and get_colony on the entry  *)
(* with id 1 of each map.  DashMap::get_mut holds the entry for writing    *)
(* until the guard is dropped, DashMap::get holds it for reading.  A step  *)
(* of the model is one half of a closure or of a clone.                    *)
(***************************************************************************)
EntryId == 1

\* the calls the behaviour step makes: the closures of collect_food and of
\* deposit_food, and the reads (get_ant, get_colony, an entry of a scan of
\* the food sources)
Calls ==
    { [kind |-> "food", op |-> "debit", arg |-> 0],
      [kind |-> "ant", op |-> "load", arg |-> 5],
      [kind |-> "colony", op |-> "credit", arg |-> 5],
      [kind |-> "ant", op |-> "unload", arg |-> 0],
      [kind |-> "ant", op |-> "get", arg |-> 0],
      [kind |-> "colony", op |-> "get", arg |-> 0],
      [kind |-> "food", op |-> "get", arg |-> 0] }

Entry(kind) ==
    CASE kind = "ant" -> ants[EntryId]
      [] kind = "colony" -> colonies[EntryId]
      [] OTHER -> food_sources[EntryId]

\* what the constructor has loaded
InitialEntry(kind) ==
    CASE kind = "ant" -> LoadAnts(db.ants)[EntryId]
      [] kind = "colony" -> LoadColonies(db.colonies)[EntryId]
      [] OTHER -> LoadFoodSources(db.food_sources)[EntryId]

SetEntry(kind, e) ==
    /\ ants' = IF kind = "ant" THEN [ants EXCEPT ![EntryId] = e] ELSE ants
    /\ colonies' = IF kind = "colony" THEN [colonies EXCEPT ![EntryId] = e] ELSE colonies
    /\ food_sources' = IF kind = "food" THEN [food_sources EXCEPT ![EntryId] = e]
                       ELSE food_sources

\* self.dirty_*.insert(id, true)
MarkDirty(kind) ==
    /\ dirty_ants' = IF kind = "ant" THEN dirty_ants \cup {EntryId} ELSE dirty_ants
    /\ dirty_colonies' = IF kind = "colony" THEN dirty_colonies \cup {EntryId}
                         ELSE dirty_colonies
    /\ dirty_food_sources' = IF kind = "food" THEN dirty_food_sources \cup {EntryId}
                             ELSE dirty_food_sources

CanWriteUnguarded(guard) == TRUE

\* get_mut waits until no other guard holds the entry
CanWrite(guard) == guard.writer = 0 /\ guard.readers = {}

\* get waits until no writing guard holds the entry
CanRead(guard) == guard.writer = 0

\* get_mut or get has returned its guard
CacheAcquire(c) ==
    /\ pc = "idle"
    /\ calls[c].pc = "start"
    /\ \E call \in Calls :
          /\ IF call.op = "get" THEN CanRead(guards[call.kind])
             ELSE CanWrite(guards[call.kind])
          /\ guards' = [guards EXCEPT ![call.kind] =
                            IF call.op = "get" THEN [@ EXCEPT !.readers = @ \cup {c}]
                            ELSE [@ EXCEPT !.writer = c]]
          /\ calls' = [calls EXCEPT ![c].call = call, ![c].pc = "held"]
    /\ UNCHANGED <<worldVars, failed_syncs, drains, run, netVars>>

\* the variables no call of the cache touches
loopVars == <<pheromone_trails, current_tick, db, pc, living_ants, batches, stepped,
              phase_log, last_collect, last_deposit, restarts, elapsed,
              failed_syncs, run, netVars>>

\* the first statements of a closure: what it has made of the entry
FirstHalf(call, e) ==
    CASE call.op = "load" -> [e EXCEPT !.state = "CarryingFood", !.target = TargetFood(EntryId)]
      [] call.op = "unload" -> [e EXCEPT !.carried_resources = EmptyMap]
      [] OTHER -> e

\* the first statements of a closure: what it has read of the entry
FirstRead(call, e) ==
    CASE call.op = "debit" -> Collected(e.amount)
      [] call.op = "credit" -> MapGetOr(e.resources, "food", 0)
      [] OTHER -> 0

\* the last statements of a closure
SecondHalf(call, e, local) ==
    CASE call.op = "debit" -> [e EXCEPT !.amount = @ - local]
      [] call.op = "credit" ->
           [e EXCEPT !.resources = MapPut(e.resources, "food", local + call.arg)]
      [] call.op = "load" ->
           [e EXCEPT !.carried_resources = MapPut(e.carried_resources, "food", call.arg),
                     !.last_food_source_id = EntryId]
      [] call.op = "unload" ->
           IF local > 0
           THEN [e EXCEPT !.state = "SeekingFood", !.target = TargetFood(EntryId),
                          !.last_food_source_id = EntryId]
           ELSE [e EXCEPT !.state = "Wandering", !.target = NoTarget,
                          !.last_food_source_id = NoneId]
      [] OTHER -> e

\* clone() copies the fields one after the other: the later fields
CloneRest(kind, copy, e) ==
    CASE kind = "ant" -> [copy EXCEPT !.carried_resources = e.carried_resources,
                                      !.last_food_source_id = e.last_food_source_id]
      [] kind = "colony" -> [copy EXCEPT !.resources = e.resources]
      [] OTHER -> [copy EXCEPT !.amount = e.amount]

CacheFirst(c) ==
    /\ calls[c].pc = "held"
    /\ LET call == calls[c].call
           e == Entry(call.kind)
       IN  /\ SetEntry(call.kind, FirstHalf(call, e))
           /\ calls' = [calls EXCEPT ![c].pc = "half",
                            ![c].local = FirstRead(call, e),
                            ![c].seen = IF call.op = "get" THEN <<e>> ELSE <<>>]
    /\ UNCHANGED <<dirty_ants, dirty_colonies, dirty_food_sources, guards, drains, loopVars>>

\* a closure that would read the other store whichever way the call goes
NestedGetBothWays(call) ==
    IF call.op = "unload" THEN "food" ELSE IF call.op = "debit" THEN "ant" ELSE "none"

\* the store a closure reads through get while it holds its own guard: the
\* closure of deposit_food reads the food source; no other closure reads
NestedGet(call) == IF call.op = "unload" THEN "food" ELSE "none"

\* the closure of deposit_food reads the food source through get
CacheSecond(c) ==
    /\ calls[c].pc = "half"
    /\ LET call == calls[c].call
           e == Entry(call.kind)
           local == IF call.op = "unload" THEN Remaining(EntryId) ELSE calls[c].local
       IN  /\ NestedGet(call) # "none" => CanRead(guards[NestedGet(call)])
           /\ SetEntry(call.kind, SecondHalf(call, e, local))
           /\ calls' = [calls EXCEPT ![c].pc = "applied", ![c].local = local,
                            ![c].seen = IF call.op = "get"
                                        THEN <<CloneRest(call.kind, calls[c].seen[1], e)>>
                                        ELSE <<>>]
    /\ UNCHANGED <<dirty_ants, dirty_colonies, dirty_food_sources, guards, drains, loopVars>>

\* the dirty flag is set and the guard dropped; log is history: the
\* mutations of the entry in the order their guards were dropped
CacheRelease(c) ==
    /\ calls[c].pc = "applied"
    /\ LET call == calls[c].call
       IN  IF call.op = "get"
           THEN /\ guards' = [guards EXCEPT ![call.kind].readers = @ \ {c}]
                /\ UNCHANGED <<dirty_ants, dirty_colonies, dirty_food_sources>>
           ELSE /\ MarkDirty(call.kind)
                /\ guards' = [guards EXCEPT
                      ![call.kind].writer = 0,
                      ![call.kind].log = Append(@,
                          [op |-> call.op,
                           arg |-> IF call.op = "unload" THEN calls[c].local ELSE call.arg])]
    /\ calls' = [calls EXCEPT ![c].pc = "done"]
    /\ UNCHANGED <<ants, colonies, food_sources, drains, loopVars>>

DirtyIds(kind) ==
    CASE kind = "ant" -> dirty_ants
      [] kind = "colony" -> dirty_colonies
      [] OTHER -> dirty_food_sources

\* sync_to_database beside the callers: get_dirty_ant_ids,
\* get_dirty_colony_ids and get_dirty_food_source_ids
DrainGet ==
    /\ pc = "idle"
    /\ drains.stage = "idle"
    /\ drains.count < MaxDrains
    /\ drains' = [stage |-> "got", returned |-> [kind \in Kinds |-> DirtyIds(kind)],
                  logged |-> [kind \in Kinds |-> Len(guards[kind].log)],
                  count |-> drains.count + 1]
    /\ UNCHANGED <<worldVars, cacheVars, failed_syncs, run, netVars>>

\* the four statements have succeeded: clear_dirty_flags
DrainClear ==
    /\ drains.stage = "got"
    /\ drains' = [drains EXCEPT !.stage = "idle"]
    /\ dirty_ants' = {}
    /\ dirty_colonies' = {}
    /\ dirty_food_sources' = {}
    /\ UNCHANGED <<ants, colonies, food_sources, cacheVars, loopVars>>

\* a statement has failed: sync_to_database returns before clear_dirty_flags
DrainFail ==
    /\ drains.stage = "got"
    /\ drains' = [drains EXCEPT !.stage = "idle"]
    /\ UNCHANGED <<worldVars, cacheVars, failed_syncs, run, netVars>>

CacheNext ==
    \E c \in Callers :
        \/ CacheAcquire(c)
        \/ CacheFirst(c)
        \/ CacheSecond(c)
        \/ CacheRelease(c)

CacheSpec == Init /\ [][CacheNext]_vars

\* the steps of one caller
CacheStep(c) ==
    \/ CacheAcquire(c)
    \/ CacheFirst(c)
    \/ CacheSecond(c)
    \/ CacheRelease(c)

\* the callers are threads of the pool: a thread that can go on does go on
CacheFairSpec == CacheSpec /\ \A c \in Callers : WF_vars(CacheStep(c))

\* the callers and the sync side by side
DrainNext ==
    \/ \E c \in Callers :
          \/ CacheAcquire(c)
          \/ CacheFirst(c)
          \/ CacheSecond(c)
          \/ CacheRelease(c)
    \/ DrainGet
    \/ DrainClear
    \/ DrainFail

\* one world is enough for the flags: a worker near the food, a worker
\* with a load in the colony
DrainRows ==
    {WorldRows(<<NearFood, InColony(Carried(5)), NearFood, FoodRow(8, 0, 2), HomeColony>>)}

DrainInit ==
    /\ db \in DrainRows
    /\ Construct(db)
    /\ restarts = 0
    /\ elapsed = 0
    /\ CacheIdle
    /\ failed_syncs = {}
    /\ DrainIdle
    /\ Running
    /\ NetIdle

DrainSpec == DrainInit /\ [][DrainNext]_vars

\* a whole closure, as the behaviour step of one ant applies it
Apply(m, e) ==
    CASE m.op = "debit" -> [e EXCEPT !.amount = @ - Collected(@)]
      [] m.op = "credit" -> AddFood(e, m.arg)
      [] m.op = "load" -> CreditLoad(e, EntryId, m.arg)
      [] OTHER -> Unloaded(e, EntryId, m.arg)

\* the mutations of log applied one after the other
RECURSIVE Fold(_, _)
Fold(log, e) == IF log = <<>> THEN e ELSE Fold(Tail(log), Apply(Head(log), e))

(***************************************************************************)
(* Properties of the simulation loop.                                      *)
(***************************************************************************)
IsDead(a) == a \in DOMAIN ants /\ ants[a].state = "Dead"

\* the trails of pheromone_trails' that ant a has emitted in this step
EmittedBy(a) ==
    {t \in DOMAIN pheromone_trails' :
        /\ pheromone_trails'[t].ant_id = a
        /\ \/ t \notin DOMAIN pheromone_trails
           \/ pheromone_trails[t].ant_id # a
           \/ pheromone_trails[t].position # pheromone_trails'[t].position
           \/ pheromone_trails[t].trail_type # pheromone_trails'[t].trail_type}

\* C1: within a run of the engine, an ant that is Dead stays Dead and
\* unchanged in every later step, no behaviour step is begun for it and no
\* trail is emitted for it.
DeadIsAbsorbing ==
    [][restarts' = restarts =>
        \A a \in DOMAIN ants :
            IsDead(a) =>
                /\ a \in DOMAIN ants'
                /\ ants'[a] = ants[a]
                /\ a \in DOMAIN stepped /\ a \in DOMAIN stepped' => stepped'[a] <= stepped[a]
                /\ EmittedBy(a) = {}]_vars

\* an ant died in the first tick and the agent phase of the second tick
\* has run without a step for it
DeadSkippedWitness ==
    \E a \in DOMAIN ants :
        /\ IsDead(a)
        /\ current_tick = 2
        /\ pc = "colony"
        /\ Len(living_ants) > 0
        /\ stepped[a] = 0

\* C2: every ant's position lies inside the world, 0 <= x <= width and
\* 0 <= y <= height, in every state, newly spawned ants included.
AntsInBounds ==
    \A a \in DOMAIN ants : InBounds(ants[a].position, WorldBounds)

\* C3: the last completed Collect took from the food source exactly what
\* it added to the ant's carried total, and not less than nothing.
CollectConserves ==
    last_collect.ant # NoneId =>
        /\ last_collect.food_before - last_collect.food_after
             = last_collect.carried_after - last_collect.carried_before
        /\ last_collect.food_before - last_collect.food_after >= 0

\* C4: the last completed Deposit added to the colony's food exactly the
\* ant's carried total, and left the ant's carried map empty.
DepositConserves ==
    last_deposit.ant # NoneId =>
        /\ last_deposit.colony_after - last_deposit.colony_before = last_deposit.carried_before
        /\ last_deposit.carried_left = EmptyMap

\* a load of two kinds has been deposited
DepositWitness ==
    /\ last_deposit.ant # NoneId
    /\ last_deposit.carried_before = 4
    /\ last_deposit.colony_after = last_deposit.colony_before + 4
    /\ ants[last_deposit.ant].carried_resources = EmptyMap

\* C5: every food source holds an amount within 0 .. max_amount.
FoodWithinBounds ==
    \A f \in DOMAIN food_sources :
        /\ 0 <= food_sources[f].amount
        /\ food_sources[f].amount <= food_sources[f].max_amount

\* a source two ants have collected from, the second taking what was left
FoodWitness ==
    /\ last_collect.ant # NoneId
    /\ last_collect.food_before = 1
    /\ last_collect.food_after = 0
    /\ \E f \in DOMAIN food_sources : food_sources[f].amount = 0

\* C6: an ant in state CarryingFood carries a non-empty load with a
\* positive total.
CarryingHasLoad ==
    \A a \in DOMAIN ants :
        ants[a].state = "CarryingFood" =>
            /\ ants[a].carried_resources # EmptyMap
            /\ MapSum(ants[a].carried_resources) > 0

\* the pheromone phase of the current tick has run
AfterPheromonePhase ==
    pc \in {"agents", "agents_running", "colony", "sync", "broadcast"}
        \/ (pc = "idle" /\ current_tick > 0)

\* C7: a trail present after the pheromone phase of tick T has a strength
\* of at least 0 and an expiry tick after T, and the expiry tick of every
\* trail is the tick of its emission plus a horizon that is the same for
\* all trails of its kind.  (The trail of the engine has no max_strength.)
TrailsExpireAfterHorizon ==
    /\ AfterPheromonePhase =>
          \A t \in DOMAIN pheromone_trails :
              /\ pheromone_trails[t].strength >= 0
              /\ current_tick < pheromone_trails[t].expires_at
    /\ \A t, u \in DOMAIN pheromone_trails :
          pheromone_trails[t].trail_type = pheromone_trails[u].trail_type =>
              pheromone_trails[t].expires_at - pheromone_trails[t].emitted_at
                  = pheromone_trails[u].expires_at - pheromone_trails[u].emitted_at

\* the agent phase of the current tick has been joined
PhaseOver == pc \in {"colony", "sync", "broadcast"} \/ (pc = "idle" /\ current_tick > 0)

\* the ants a batch has been handed
ChunkIds(b) == {b.chunk[i].id : i \in 1 .. Len(b.chunk)}

\* C8: no ant has more than one behaviour step in a tick; once the agent
\* phase is over every ant that was not Dead when it began has had exactly
\* one and every other ant none; no ant is in two batches, and no two batches work on the same ant.
SteppedExactlyOnce ==
    /\ \A a \in DOMAIN stepped : stepped[a] <= 1
    /\ PhaseOver =>
         \A a \in DOMAIN stepped :
             stepped[a] = IF \E i \in DOMAIN living_ants : living_ants[i].id = a THEN 1 ELSE 0
    /\ \A j, k \in DOMAIN batches : j # k => ChunkIds(batches[j]) \cap ChunkIds(batches[k]) = {}
    /\ \A k \in DOMAIN batches :
         Cardinality(ChunkIds(batches[k])) = Len(batches[k].chunk)

\* three living ants were stepped by two batches
SteppedWitness ==
    /\ pc = "colony"
    /\ Len(living_ants) = NumAnts
    /\ Len(batches) > 1
    /\ \A a \in DOMAIN ants : stepped[a] = 1

\* C9: an entry that no update holds equals its loaded value with the
\* updates that have completed applied one after the other (none is lost,
\* none is applied in part), and a completed get has returned the entry as
\* it was before or after whole updates.
Linearizable ==
    /\ \A kind \in Kinds :
          guards[kind].writer = 0 =>
              Entry(kind) = Fold(guards[kind].log, InitialEntry(kind))
    /\ \A c \in Callers :
          (calls[c].pc = "done" /\ calls[c].call.op = "get") =>
              \E i \in 0 .. Len(guards[calls[c].call.kind].log) :
                  calls[c].seen = <<Fold(SubSeq(guards[calls[c].call.kind].log, 1, i),
                                         InitialEntry(calls[c].call.kind))>>

\* two callers have credited the colony and a third has read it in between
LinearizableWitness ==
    /\ \A c \in Callers : calls[c].pc = "done"
    /\ Len(guards["colony"].log) = 2
    /\ MapGetOr(colonies[EntryId].resources, "food", 0)
          = MapGetOr(InitialEntry("colony").resources, "food", 0) + 10
    /\ \E c \in Callers :
          /\ calls[c].call.op = "get"
          /\ calls[c].seen = <<Fold(SubSeq(guards["colony"].log, 1, 1),
                                    InitialEntry("colony"))>>


\* what a whole tick logs
ExpectedLog(tick) ==
    <<"environment", "pheromone", "agents_begin", "agents", "colony">>
        \o (IF tick % db_sync_interval = 0 THEN <<"sync">> ELSE <<>>)
        \o <<"broadcast">>

IsPrefix(p, q) == Len(p) <= Len(q) /\ p = SubSeq(q, 1, Len(p))

\* C10: the phases of a tick run once each in the order environment,
\* pheromone, agents, colony, then the sync (when due) and the broadcast;
\* the batches work only between the begin and the end of the agent phase;
\* between two ticks everything of the last tick has run.
PhasesInOrder ==
    /\ IsPrefix(phase_log, ExpectedLog(current_tick))
    /\ (pc = "idle" /\ current_tick > 0) => phase_log = ExpectedLog(current_tick)
    /\ (\E k \in DOMAIN batches : ~BatchDone(batches[k])) =>
          /\ phase_log # <<>>
          /\ phase_log[Len(phase_log)] = "agents_begin"

\* the second tick has run through all its phases, the sync included
PhasesWitness ==
    /\ pc = "idle"
    /\ current_tick = 2
    /\ phase_log = ExpectedLog(2)
    /\ "sync" \in {phase_log[i] : i \in 1 .. Len(phase_log)}


(***************************************************************************)
(* Properties of the tick counter.                                         *)
(***************************************************************************)
\* the loop is at the top of a tick: ticker.tick() has fired
TickStarts == pc = "idle" /\ pc' = "environment"

\* C11: within one run of the engine the tick counter never decreases and
\* grows by exactly 1 with every tick the loop processes, and by nothing
\* else: no phase, no sync (failed or not) and no broadcast changes it, so
\* no tick value is skipped or repeated.
TickByOne ==
    [][restarts' = restarts =>
          IF TickStarts THEN current_tick' = current_tick + 1
          ELSE current_tick' = current_tick]_vars

\* the second tick has begun although the sync of the first one failed
TickAfterFailedSync == current_tick = 2 /\ 1 \in failed_syncs /\ restarts = 0

(***************************************************************************)
(* Properties of the broadcast.                                            *)
(***************************************************************************)
\* the state a client holds that has applied the first i messages of channel
RECURSIVE Rebuilt(_)
Rebuilt(i) == IF i = 0 THEN NoState ELSE ApplyMessage(Rebuilt(i - 1), channel[i])

\* the entities of a client's state
Content(state) == [ants |-> state.ants, colonies |-> state.colonies,
                   food_sources |-> state.food_sources,
                   pheromone_trails |-> state.pheromone_trails]

\* C12: every DeltaUpdate, applied to the state rebuilt from the messages
\* before it, yields the ants, colonies, food sources and pheromone trails
\* the cache held when the delta was made (those of a fresh FullState)
DeltaCorrect ==
    \A i \in DOMAIN channel :
        channel[i].type = "DeltaUpdate" =>
            Content(Rebuilt(i)) = engine_states[i].world

\* the client has applied every message its receiver yielded, at least one
AppliedAll(c) ==
    /\ subscribers[c].status = "connected"
    /\ subscribers[c].lost = 0
    /\ subscribers[c].state # NoState

\* C13: a subscriber that has applied, in order, every message since its
\* first holds the ants, colonies, food sources and pheromone trails the
\* cache held when the last of them was made
SubscriberHoldsEngineState ==
    \A c \in Clients :
        AppliedAll(c) =>
            Content(subscribers[c].state) = engine_states[subscribers[c].next - 1].world

\* the entries with the same id that differ
Differing(current, prev) == {i \in DOMAIN current \cap DOMAIN prev : current[i] # prev[i]}

\* between prev and current a single ant moved and a single food amount
\* decreased, and nothing else happened to ants, colonies and food
SingleMoveAndDecrease(current, prev) ==
    /\ DOMAIN current.ants = DOMAIN prev.ants
    /\ DOMAIN current.food_sources = DOMAIN prev.food_sources
    /\ current.colonies = prev.colonies
    /\ Cardinality(Differing(current.ants, prev.ants)) = 1
    /\ \A a \in Differing(current.ants, prev.ants) :
          current.ants[a].position # prev.ants[a].position
    /\ Cardinality(Differing(current.food_sources, prev.food_sources)) = 1
    /\ \A f \in Differing(current.food_sources, prev.food_sources) :
          current.food_sources[f].amount < prev.food_sources[f].amount

\* the lists of the DeltaUpdate m hold exactly what the claim names
ExactLists(m, current, prev) ==
    /\ DOMAIN m.updated_ants =
          {a \in DOMAIN current.ants :
              \/ a \notin DOMAIN prev.ants
              \/ current.ants[a].position # prev.ants[a].position
              \/ current.ants[a].state # prev.ants[a].state
              \/ current.ants[a].health # prev.ants[a].health
              \/ current.ants[a].energy # prev.ants[a].energy}
    /\ \A a \in DOMAIN m.updated_ants : m.updated_ants[a] = current.ants[a]
    /\ DOMAIN m.updated_colonies =
          {c \in DOMAIN current.colonies :
              \/ c \notin DOMAIN prev.colonies
              \/ current.colonies[c].population # prev.colonies[c].population
              \/ current.colonies[c].resources # prev.colonies[c].resources}
    /\ \A c \in DOMAIN m.updated_colonies : m.updated_colonies[c] = current.colonies[c]
    /\ DOMAIN m.updated_food_sources =
          {f \in DOMAIN current.food_sources :
              \/ f \notin DOMAIN prev.food_sources
              \/ current.food_sources[f].amount # prev.food_sources[f].amount}
    /\ \A f \in DOMAIN m.updated_food_sources :
          m.updated_food_sources[f] = current.food_sources[f]
    /\ m.removed_ant_ids = DOMAIN prev.ants \ DOMAIN current.ants
    /\ m.removed_food_source_ids = DOMAIN prev.food_sources \ DOMAIN current.food_sources

\* in the scenario the delta names the ant and the source, and no colony
\* and no removed id
ScenarioLists(m, current, prev) ==
    /\ DOMAIN m.updated_ants = Differing(current.ants, prev.ants)
    /\ DOMAIN m.updated_food_sources = Differing(current.food_sources, prev.food_sources)
    /\ DOMAIN m.updated_colonies = {}
    /\ m.removed_ant_ids = {}
    /\ m.removed_food_source_ids = {}

\* the step is a periodic broadcast that sends a DeltaUpdate
SendsDelta ==
    /\ pc = "broadcast"
    /\ Len(channel') = Len(channel) + 1
    /\ channel'[Len(channel')].type = "DeltaUpdate"

\* C14 as stated: the lists of every DeltaUpdate are exact with respect to
\* the retained snapshot, and when a single ant moved and a single food
\* amount decreased every list but updated_ants and updated_food_sources is
\* empty, new_pheromone_trails included
DeltaListsAllOthersEmpty ==
    [][SendsDelta =>
          LET m == channel'[Len(channel')]
          IN  /\ ExactLists(m, World, previous)
              /\ SingleMoveAndDecrease(World, previous) =>
                    /\ ScenarioLists(m, World, previous)
                    /\ DOMAIN m.new_pheromone_trails = {}]_vars

\* C14: the lists of every DeltaUpdate are exact with respect to the
\* retained snapshot; when a single ant moved and a single food amount
\* decreased, updated_ants holds that ant, updated_food_sources that source,
\* updated_colonies and the removed ids are empty, and new_pheromone_trails
\* holds every live trail
DeltaLists ==
    [][SendsDelta =>
          LET m == channel'[Len(channel')]
          IN  /\ ExactLists(m, World, previous)
              /\ m.new_pheromone_trails = pheromone_trails
              /\ SingleMoveAndDecrease(World, previous) =>
                    ScenarioLists(m, World, previous)]_vars

\* a DeltaUpdate was sent after a single ant moved and a single food amount
\* decreased while a trail was live
ScenarioDeltaSent ==
    \E i \in 2 .. Len(channel) :
        /\ channel[i].type = "DeltaUpdate"
        /\ engine_states[i - 1].periodic
        /\ SingleMoveAndDecrease(engine_states[i].world, engine_states[i - 1].world)
        /\ DOMAIN channel[i].new_pheromone_trails # {}
        /\ Cardinality(DOMAIN channel[i].updated_ants) = 1

\* C15: of the periodic broadcasts the first is a FullState and every later
\* one a DeltaUpdate
FirstPeriodicIsFull ==
    \A i \in DOMAIN channel :
        engine_states[i].periodic =>
            (channel[i].type = "FullState"
                <=> \A j \in 1 .. (i - 1) : ~engine_states[j].periodic)

\* the client is served and has asked for the state of this simulation
Asking(c) == subscribers[c].status = "connected" /\ subscribers[c].asked # 0

\* the receiver of the client has yielded a FullState sent after the request
Answered(c) ==
    /\ subscribers[c].asked # 0
    /\ \E i \in subscribers[c].asked .. (subscribers[c].next - 1) :
          channel[i].type = "FullState"

\* the step sends a message that is not the periodic one
SendsOnRequest ==
    /\ Len(channel') = Len(channel) + 1
    /\ ~engine_states'[Len(channel')].periodic

SubscriberKeptAfterFailure ==
    \A c \in Clients : subscribers[c].open => subscribers[c].status = "connected"

(***************************************************************************)
(* Properties of the persistence sync.                                     *)
(***************************************************************************)
SyncFails == pc = "sync" /\ elapsed \in failed_syncs'

SyncSucceeds == pc = "sync" /\ elapsed \notin failed_syncs'

\* the rows of the ids hold what the cache holds in the columns the batch
\* updates write
RowsWritten(rows, ant_ids, colony_ids, food_ids) ==
    /\ \A a \in ant_ids \cap DOMAIN ants \cap DOMAIN rows.ants :
          /\ rows.ants[a].position_x = LengthToI32(ants[a].position[1])
          /\ rows.ants[a].position_y = LengthToI32(ants[a].position[2])
          /\ rows.ants[a].health = ants[a].health
          /\ rows.ants[a].energy = ants[a].energy
          /\ rows.ants[a].state = state_str(ants[a].state)
    /\ \A c \in colony_ids \cap DOMAIN colonies \cap DOMAIN rows.colonies :
          rows.colonies[c].population = colonies[c].population
    /\ \A f \in food_ids \cap DOMAIN food_sources \cap DOMAIN rows.food_sources :
          rows.food_sources[f].amount = food_sources[f].amount

\* C18: a sync that fails leaves the cache and every dirty id as they were
\* and the loop goes on to the broadcast; outside the sync step no row is
\* written and no dirty id is dropped; the sync that succeeds writes the
\* entity of every dirty id and the tick, and only then the ids are clean
FailedSyncLosesNothing ==
    [][restarts' = restarts =>
          /\ SyncFails =>
                /\ UNCHANGED <<dirty_ants, dirty_colonies, dirty_food_sources>>
                /\ UNCHANGED <<ants, colonies, food_sources, current_tick>>
                /\ pc' = "broadcast"
          /\ SyncSucceeds =>
                /\ RowsWritten(db', dirty_ants, dirty_colonies, dirty_food_sources)
                /\ db'.current_tick = current_tick
                /\ dirty_ants' = {} /\ dirty_colonies' = {} /\ dirty_food_sources' = {}
          /\ pc # "sync" =>
                /\ db' = db
                /\ dirty_ants \subseteq dirty_ants'
                /\ dirty_colonies \subseteq dirty_colonies'
                /\ dirty_food_sources \subseteq dirty_food_sources']_vars

\* the sync of tick 1 failed, the loop went on, and the sync of tick 2 has
\* written the ants that were dirty at tick 1
WrittenAfterFailedSync ==
    /\ restarts = 0
    /\ failed_syncs = {1}
    /\ pc = "broadcast"
    /\ current_tick = 2
    /\ db.current_tick = 2
    /\ dirty_ants = {}
    /\ \E a \in DOMAIN ants \cap DOMAIN db.ants :
          /\ stepped[a] > 0
          /\ ants[a].state # "Dead"
          /\ db.ants[a].position_x = LengthToI32(ants[a].position[1])

\* the step reads the dirty ids, after an earlier read
DrainsAgain == drains.stage = "idle" /\ drains'.stage = "got" /\ drains.count > 0

\* the step clears the dirty flags
DrainClears == drains.stage = "got" /\ drains'.stage = "idle" /\ dirty_ants' = {}

\* C19: the ids a sync clears are ids it has returned, and an id that two
\* syncs in a row return has been mutated between the two reads
DrainExact ==
    [][/\ DrainClears =>
             \A kind \in Kinds : DirtyIds(kind) \subseteq drains.returned[kind]
       /\ DrainsAgain =>
             \A kind \in Kinds :
                 \A id \in DirtyIds(kind) \cap drains.returned[kind] :
                     id = EntryId /\ Len(guards[kind].log) > drains.logged[kind]]_vars

\* the row holds the snapshot of the ant in the columns batch_update_ants
\* sets from it
HoldsSnapshot(row, ant) ==
    /\ row.position_x = LengthToI32(ant.position[1])
    /\ row.position_y = LengthToI32(ant.position[2])
    /\ row.angle = AngleToI32(ant.angle)
    /\ row.current_speed = LengthToI32(ant.speed)
    /\ row.health = ant.health
    /\ row.energy = ant.energy
    /\ row.age_ticks = ant.age_ticks
    /\ row.state = state_str(ant.state)

\* the two rows agree in every column but last_updated
SameColumns(row, other) ==
    [row EXCEPT !.last_updated = 0] = [other EXCEPT !.last_updated = 0]

\* the colony and food-source rows that hold what the cache holds stay as
\* they are
OtherRowsKept ==
    /\ \A c \in DOMAIN db.colonies \cap DOMAIN colonies :
          db.colonies[c].population = colonies[c].population
             => db'.colonies[c] = db.colonies[c]
    /\ \A f \in DOMAIN db.food_sources \cap DOMAIN food_sources :
          db.food_sources[f].amount = food_sources[f].amount
             => db'.food_sources[f] = db.food_sources[f]

\* C20 as stated: a sync leaves every row identical that an earlier sync
\* has written and whose entity is still what the row stores
SyncIdempotent ==
    [][/\ \A a \in DOMAIN db.ants \cap DOMAIN ants :
             db.ants[a].last_updated > 0 /\ ants[a] = LoadAnt(a, db.ants[a])
                => db'.ants[a] = db.ants[a]
       /\ OtherRowsKept]_vars

\* C20: a sync leaves a row that an earlier sync has written and that
\* holds the snapshot of its entity identical in every column but
\* last_updated, and a colony or food-source row that holds what the cache
\* holds identical
SyncIdempotentButTime ==
    [][/\ \A a \in DOMAIN db.ants \cap DOMAIN ants :
             db.ants[a].last_updated > 0 /\ HoldsSnapshot(db.ants[a], ants[a])
                => SameColumns(db'.ants[a], db.ants[a])
       /\ OtherRowsKept]_vars

\* the sync of tick 1 wrote the ants and failed after that, and the sync of
\* tick 2 has written again the row of an ant no step has mutated
SnapshotWrittenTwice ==
    /\ restarts = 0
    /\ failed_syncs = {1}
    /\ pc = "broadcast"
    /\ elapsed = 2
    /\ db.ant_batches = 2
    /\ \E a \in DOMAIN db.ants \cap DOMAIN ants :
          /\ ants[a] = LoadAnt(a, db.ants[a])
          /\ db.ants[a].last_updated = 2

(***************************************************************************)
(* Properties of the round trip through the store.                         *)
(***************************************************************************)
\* the sync of the last tick succeeded and the loop has mutated nothing
\* since
SyncedAndUntouched ==
    /\ pc = "idle"
    /\ elapsed > 0
    /\ elapsed \notin failed_syncs
    /\ db.current_tick = current_tick

\* the step constructs the engine again from the rows
Reloads == restarts' = restarts + 1

\* C21: when the engine is loaded again after a successful sync and no
\* later mutation, every ant, colony and food source that has a row is
\* loaded with the position, heading, speed, health, energy, age and state
\* (population and resources, amount) the cache held
RoundTrip ==
    [][SyncedAndUntouched /\ Reloads =>
          /\ \A a \in DOMAIN ants \cap DOMAIN db.ants :
                /\ a \in DOMAIN ants'
                /\ ants'[a].position = ants[a].position
                /\ ants'[a].angle = ants[a].angle
                /\ ants'[a].speed = ants[a].speed
                /\ ants'[a].health = ants[a].health
                /\ ants'[a].energy = ants[a].energy
                /\ ants'[a].age_ticks = ants[a].age_ticks
                /\ ants'[a].state = ants[a].state
          /\ \A c \in DOMAIN colonies \cap DOMAIN db.colonies :
                /\ c \in DOMAIN colonies'
                /\ colonies'[c].population = colonies[c].population
                /\ colonies'[c].resources = colonies[c].resources
          /\ \A f \in DOMAIN food_sources \cap DOMAIN db.food_sources :
                /\ f \in DOMAIN food_sources'
                /\ food_sources'[f].amount = food_sources[f].amount]_vars

(***************************************************************************)
(* Properties of the stop request.                                         *)
(***************************************************************************)
\* the step leaves the loop
Exits == pc # "stopped" /\ pc' = "stopped"

\* C22: when the loop exits after a stop request, no tick has begun since
\* the request and a persistence sync has run since the request
StopSyncsAndExits ==
    [][Exits => /\ elapsed = run.at
                /\ run.where \notin {"idle", "broadcast"}]_vars

(***************************************************************************)
(* Properties of the behaviour step.                                       *)
(***************************************************************************)
\* C23: after the agent phase of a tick every ant that was not Dead when
\* the phase began holds an age one higher and an energy one lower, not
\* below 0, than it held then, and is Dead if that age exceeds the lifespan
\* of its type or that energy is 0
AgesAndTires ==
    pc = "colony" =>
        \A i \in DOMAIN living_ants :
            LET old == living_ants[i]
                new == ants[old.id]
            IN  /\ new.age_ticks = old.age_ticks + 1
                /\ new.energy = Max(old.energy - 1, 0)
                /\ Dies(old) => new.state = "Dead"

\* the ant is in SeekingFood, its target holds food, and it has not
\* collected
StillHunting(a) ==
    /\ ants[a].state = "SeekingFood"
    /\ ants[a].target[1] = "Food"
    /\ ants[a].target[2] \in DOMAIN food_sources
    /\ food_sources[ants[a].target[2]].amount > 0
    /\ last_collect.ant # a

\* the ant is where it was loaded, with the heading and the speed it was
\* loaded with
BackAtStart(a) ==
    /\ ants[a].position = LoadAnt(a, HuntRows.ants[a]).position
    /\ ants[a].angle = LoadAnt(a, HuntRows.ants[a]).angle
    /\ ants[a].speed = LoadAnt(a, HuntRows.ants[a]).speed

\* C24: a worker in SeekingFood whose target holds food is on its way to
\* collect: at the end of no tick is it, without having collected, back at
\* the position, heading and speed it started the hunt with (from where the
\* same steps would follow again, for ever)
HuntArrives ==
    pc = "idle" /\ elapsed > 0 =>
        \A a \in DOMAIN ants : ~(StillHunting(a) /\ BackAtStart(a))

(***************************************************************************)
(* Properties of the colony phase.                                         *)
(***************************************************************************)
\* the ants the step adds to the colony
SpawnedFor(c) == {i \in DOMAIN ants' \ DOMAIN ants : ants'[i].colony_id = c}

LiveAntsOf(c) == {a \in DOMAIN ants : ants[a].colony_id = c /\ ants[a].state # "Dead"}

\* C26: after the colony phase of a tick the population of every colony
\* is the number of ants of that colony that are not Dead
PopulationIsLiveCount ==
    pc = "sync" =>
        \A c \in DOMAIN colonies : colonies[c].population = Cardinality(LiveAntsOf(c))

\* C27: the spawning of the environment phase never takes the number of
\* food sources above the cap
FoodWithinCap == Cardinality(DOMAIN food_sources) <= max_food_sources

\* the angle between two headings, the short way round
AngleBetween(a, b) == Min((a - b) % TAU, (b - a) % TAU)

\* further from every edge than the longest step (3.6 units), so that the
\* step of this tick cannot have been reflected
FarFromEdges(ant) ==
    /\ 40 <= ant.position[1] /\ ant.position[1] <= WorldBounds.width - 40
    /\ 40 <= ant.position[2] /\ ant.position[2] <= WorldBounds.height - 40

\* C28: the heading of an ant changes by at most max_turn_rate in a tick
\* unless its step was reflected at an edge of the world
TurnsWithinRate ==
    pc = "colony" =>
        \A i \in DOMAIN living_ants :
            LET old == living_ants[i]
                new == ants[old.id]
            IN  FarFromEdges(old) => AngleBetween(new.angle, old.angle) <= MAX_TURN_RATE

\* the ant type or the colony of the ant is not in the store
MissingEntity(ant) == ~HasAntType(ant) \/ ant.colony_id \notin DOMAIN colonies

\* C29: an ant whose type or colony is missing is stepped all the same: it
\* wanders, that is it moves and ends the tick in state Wandering
MissingFallsBackToWander ==
    pc = "colony" =>
        \A i \in DOMAIN living_ants :
            LET old == living_ants[i]
                new == ants[old.id]
            IN  MissingEntity(old) /\ ~Dies(old) =>
                    new.state = "Wandering" /\ new.position # old.position

(***************************************************************************)
(* Properties of the merging of trails.                                    *)
(***************************************************************************)
\* no two trails that merge have the same strength
NoTies(trails) ==
    \A a, b \in DOMAIN trails :
        a # b /\ ShouldMerge(trails[a], trails[b]) => trails[a].strength # trails[b].strength

\* C30: the trails a merging pass leaves are the same for every order in
\* which the pairs are visited, when no two merging trails are equally strong
MergingConfluent ==
    [][NoTies(pheromone_trails) =>
          \A order \in QueryOrders(pheromone_trails) :
              pheromone_trails' = MapRemove(pheromone_trails,
                                            merged_entities(pheromone_trails, order))]_vars

\* a chain of three trails of one type and three strengths, the weakest in
\* the middle, after the pass: both ends are left
ChainMerged ==
    /\ DOMAIN pheromone_trails = {1, 3}
    /\ pheromone_trails[1].position = <<100, 300>>
    /\ pheromone_trails[3].position = <<170, 300>>
    /\ pheromone_trails[1].trail_type = pheromone_trails[3].trail_type
    /\ pheromone_trails[1].strength = 3000
    /\ pheromone_trails[3].strength = 2000

(***************************************************************************)
(* Properties of the callers of the store.                                 *)
(***************************************************************************)
\* C31: the calls of the parallel batches that hold the guard of one entry
\* while they read or update another store all complete, under every
\* interleaving
AllCallsComplete == <>(\A c \in Callers : calls[c].pc = "done")

\* the closure of deposit_food holds the ant and waits for the food source,
\* which the closure of collect_food holds
NestedWait ==
    \E c, d \in Callers :
        /\ calls[c].pc = "half"
        /\ calls[c].call.op = "unload"
        /\ guards["food"].writer = d
        /\ guards["ant"].writer = c

\* C32: a trail is merged away only with a trail of its colony and type that
\* lies within 3 units of it
MergesOnlyWithin3 ==
    [][\A r \in (DOMAIN pheromone_trails) \ (DOMAIN pheromone_trails') :
          \E k \in (DOMAIN pheromone_trails) \ {r} :
              /\ pheromone_trails[k].colony_id = pheromone_trails[r].colony_id
              /\ pheromone_trails[k].trail_type = pheromone_trails[r].trail_type
              /\ Dist2(pheromone_trails[k].position, pheromone_trails[r].position)
                   <= 30 * 30]_vars

\* C33: a food source that is removed from the world is not renewable
OnlyUnrenewableRemoved ==
    [][\A f \in (DOMAIN food_sources) \ (DOMAIN food_sources') :
          ~food_sources[f].is_renewable]_vars

\* C34: a step of an agent that emits a trail adds one trail and leaves
\* every trail there was as it is
EmissionAddsOne ==
    [][pc = "agents_running" /\ pheromone_trails' # pheromone_trails =>
          /\ Cardinality(DOMAIN pheromone_trails') = Cardinality(DOMAIN pheromone_trails) + 1
          /\ \A t \in DOMAIN pheromone_trails :
                t \in DOMAIN pheromone_trails' /\ pheromone_trails'[t] = pheromone_trails[t]]_vars

AntsStay == [][DOMAIN ants \subseteq DOMAIN ants']_vars

\* C36: the tick a sync writes to the row of the simulation is never smaller
\* than a tick written before, across a stop and a restart as well
PersistedTickMonotone == [][db.current_tick' >= db.current_tick]_vars

\* C37: a spawn cycle that creates n ants lowers every kind in stock by n
\* times its cost and leaves none below 0, the stock of every kind of the
\* cost covered all n ants, and a colony whose stock is below the cost
\* spawns nothing and keeps its stock
SpawnPaysExactly ==
    [][pc = "colony" =>
        \A c \in DOMAIN colonies :
            LET n == Cardinality(DOMAIN ants') - Cardinality(DOMAIN ants)
                stock == colonies[c].resources
                cost == colonies[c].upgrade_cost
                left == colonies'[c].resources
            IN  /\ DOMAIN left = DOMAIN stock
                /\ \A k \in DOMAIN stock :
                      /\ left[k] = stock[k] - n * MapGetOr(cost, k, 0)
                      /\ left[k] >= 0
                /\ n > 0 => \A k \in DOMAIN cost : MapGetOr(stock, k, 0) >= n * cost[k]
                /\ (\E k \in DOMAIN cost : MapGetOr(stock, k, 0) < cost[k])
                      => n = 0 /\ left = stock]_vars

SpawnedTwo ==
    /\ pc = "sync"
    /\ current_tick = SimulationConfig.spawn_tick_interval
    /\ Cardinality(DOMAIN ants) = Cardinality(DOMAIN LoadAnts(db.ants)) + 2
    /\ DOMAIN colonies[1].upgrade_cost = {"food", "water"}
    /\ \A k \in {"food", "water"} :
          colonies[1].resources[k]
              = db.colonies[1].resources[k] - 2 * colonies[1].upgrade_cost[k]

\* C38: the strength an ant is given by the sampling of the Food trails is
\* the sum of the weights of the trails of its colony within the radius,
\* each counted once, and the sampling changes no trail
InfluenceCountsOnce ==
    [][pc = "agents_running" /\ pc' = "agents_running" =>
        \A k \in DOMAIN batches :
            (/\ batches[k].stage = "next"
             /\ batches'[k].stage = "exec"
             /\ batches'[k].action[1] = "FollowPheromone")
            => LET ant == Cur(k)
                   radius == SearchRadius(AntTypeOf(ant).role)
                   matching == SensedTrails(ant.position, ant.colony_id, radius, "Food")
               IN  /\ batches'[k].action[3]
                         = SumInfluence(matching, ant.position, radius, ant.id, TRUE).strength
                   /\ pheromone_trails' = pheromone_trails]_vars

\* C39: while an engine runs, the state of an ant changes only from
\* Wandering to SeekingFood with a food source as target, from SeekingFood
\* to CarryingFood by a collect that took food, from SeekingFood to
\* Wandering, from CarryingFood to SeekingFood or Wandering by a deposit,
\* from Following, Exploring or Patrolling to Wandering, and to Dead
StateMachine ==
    [][restarts' = restarts =>
        \A a \in (DOMAIN ants) \cap (DOMAIN ants') :
            LET old == ants[a].state
                new == ants'[a].state
                doing(kind) == \E k \in DOMAIN batches :
                                  /\ batches[k].stage # "next"
                                  /\ Cur(k).id = a
                                  /\ batches[k].action[1] = kind
            IN  old # new =>
                  \/ /\ old = "Wandering"
                     /\ new = "SeekingFood"
                     /\ ants'[a].target[1] = "Food"
                     /\ ants'[a].target[2] \in DOMAIN food_sources
                  \/ /\ old = "SeekingFood"
                     /\ new = "CarryingFood"
                     /\ doing("CollectFood")
                     /\ \E k \in DOMAIN batches :
                           /\ batches[k].stage # "next"
                           /\ Cur(k).id = a
                           /\ batches[k].food_collected > 0
                  \/ /\ old = "SeekingFood"
                     /\ new = "Wandering"
                  \/ /\ old = "CarryingFood"
                     /\ new \in {"SeekingFood", "Wandering"}
                     /\ doing("ReturnToColony")
                     /\ AtColony(ants[a])
                  \/ /\ old \in {"Following", "Exploring", "Patrolling"}
                     /\ new = "Wandering"
                  \/ /\ old # "Dead"
                     /\ new = "Dead"]_vars

LeftIdleState ==
    /\ restarts = 0
    /\ \E a \in DOMAIN ants :
          /\ db.ants[a].state = "following"
          /\ ants[a].state = "Wandering"
====
